---------------------------- MODULE Spec2Model ----------------------------
(***************************************************************************)
(* sofilab: the remote session / execution / reboot engine of sofilab.py.  *)
(*                                                                         *)
(* One CLI invocation runs one operation (login, run-script, run-scripts,  *)
(* ls-remote, download, upload, cp, router-webui, reboot).  The operation  *)
(* is a sequential program; pc is its position.  The remote host, the SSH  *)
(* library and the network are the environment: every answer they give is  *)
(* drawn with \E from the set of answers they can give.                    *)
(***************************************************************************)
EXTENDS Integers, Sequences, FiniteSets, TLC

(***************************************************************************)
(* Program constants                                                       *)
(***************************************************************************)
DefaultPort  == 22
DownTimeout  == 60
DownInterval == 2
UpInterval   == 3

(***************************************************************************)
(* Bounds of the model                                                     *)
(***************************************************************************)
MaxScripts    == 2      \* longest configured script list
MaxWait       == 6      \* largest --wait value, in seconds
MaxCloseCalls == 3      \* close() calls made on one SSHClient object
MaxItems      == 3      \* longest list of paths given to a transfer
MaxDepth      == 2      \* deepest remote directory path
MaxEnsureCalls == 2     \* consecutive _ensure_remote_dir calls on one path
MaxEntries    == 3      \* entries of a listed directory
MaxChunks     == 2      \* recv-sized chunks a remote command writes per stream
MaxLines      == 2      \* lines held by one chunk
MaxPortLen    == 5      \* characters of a port value in the configuration
MaxArgs       == 2      \* arguments in one argument list
MaxPathLen    == 4      \* characters of a remote path
MaxHomeLen    == 3      \* characters of the remote home directory
MaxTreeDepth  == 2      \* levels of subdirectories in a remote tree
MaxStreamLen  == 3      \* bytes a remote stream carries
MaxBridged    == 2      \* chunks bridged in one direction by the interactive shell

Ports      == {DefaultPort, 2222}
ExitCodes  == {0, 1, 3}
WaitValues == 0..MaxWait

None == 0               \* Python None for a port or a transport

Names     == {"a", "b"}                         \* path components, file names
PathKinds == {"missing", "file", "dir"}
Paths     == UNION {[1..n -> Names] : n \in 0..MaxDepth}   \* absolute, normalized
ItemLists == UNION {[1..n -> Names] : n \in 1..MaxItems}

\* One-letter file names, as code points: "A", "B", "a", "b".
FileNames  == {65, 66, 97, 98}
EntryModes == {"dir", "file", "link"}          \* what st_mode says

Ops == {"login", "run-script", "run-scripts", "ls-remote", "download",
        "upload", "cp", "router-webui", "reboot"}
TransferOps == {"ls-remote", "download", "upload", "cp"}
Users       == {"root", "admin"}
ScriptOps   == {"run-script", "run-scripts"}

VARIABLES
  op,          \* the operation this invocation runs
  pc,          \* position in the operation
  retKind,     \* "running" | "returned" | "raised"
  retVal,      \* the status the operation returned
  cfgPort,     \* sc.port
  hasPassword, \* sc.password is non-empty
  user,        \* sc.user
  waitSeconds, \* reboot --wait (0: not requested)
  nScripts,    \* len(sc.scripts)
  forceTty,    \* gcfg.force_tty
  usePort,     \* the port determine_ssh_port returned (None: no port)
  reachSeen,   \* the ports that were reachable during determine_ssh_port
  cli,         \* the SSHClient of the operation and the transports of the process
  connExc,     \* what the last SSHClient.connect raised: "none" | "auth" | "other"
  idx,         \* run_scripts: index of the script being processed
  steps,       \* <<script index, step>> pairs performed so far
  artifact,    \* the uploaded script on the remote host: "none" | "full" | "partial"
  run,         \* the last remote command: the file it found, the statuses
               \* of cd, chmod and the script, whether the script was started
  rcs,         \* what execute_remote_script returned, script by script
  logs,        \* messages logged so far
  waited,      \* reboot_server: the local `waited`
  reach,       \* reboot wait phases: the port is reachable now
  firstUp,     \* up phase: second at which the port first was reachable (-1: never)
  probe,       \* reboot wait phases: the port of the last check_port_open,
               \* the phase that made it and the probes that phase has made
  closeCalls,  \* close() calls made on the current SSHClient
  closeRaised, \* the last close() raised
  faults,      \* the SSH library's close() may raise in this run
  items,       \* download_items / upload_items: the list of paths given
  kinds,       \* what each path name is on the source side: missing, file, dir
  xfer,        \* download_items / upload_items: destination, loop index,
               \* any_error, the items reported as errors and the items copied
  dirs,        \* the directories that exist on the remote host (as paths)
  ensure,      \* _ensure_remote_dir: its argument, the calls made, the mkdirs
               \* the last call issued and the mkdirs issued by all calls
  entries,     \* sftp_list_directory: what listdir_attr returns
  listed,      \* sftp_list_directory: its result and the lines it printed
  chan,        \* capture-only execution: the chunks the command has still to
               \* write (toOut, toErr), those buffered locally (out, err), the
               \* exit status (exit: it has arrived), the chunks read and the
               \* exception raised in the loop
  pty,         \* TTY execution: the lines printed and the lines passed to
               \* log_remote (lines are numbered as printed), and whether a
               \* local interrupt arrived
  conf,        \* parse_conf: the port key of a host block (given or not, its
               \* text) and the port of the profile made from the block
  args,        \* argument selection for one script: the CLI list (given or
               \* not), the profile's mapping for the script name (present
               \* or not), the default list, and the list selected
  absp,        \* _sftp_abs: the home directory, the remote path, the number
               \* of applications made, the result and the result of
               \* applying _sftp_abs to that result
  mirror,      \* download of one remote directory: the tree below it, the
               \* recursive flag, whether the walk was made, the transfers
               \* (remote path and local path, both relative to the
               \* directory and its local copy) and the directories skipped
  up,          \* one upload_script call: what each library call will do, the
               \* calls made so far in order, and the remote file
  feed,        \* one output stream of a script: its bytes, the bytes not
               \* yet received, and the lines emitted so far
  thr,         \* thread-based TTY execution: whether the reader thread was
               \* started, where it is in its loop, and the flag `stop`
  term,        \* interactive_shell on POSIX: stdin is a terminal, old_attrs
               \* was saved, the terminal is in raw mode, the channel is
               \* open, chunks bridged each way, and why the loop was left
  trust        \* host key verification of one connect(): the entry of the
               \* host in the user's known-hosts file (0: none), the key the
               \* server presented (0: none yet), the verdict, the key the
               \* library client holds in memory, whether a file was written

profile == <<op, cfgPort, user, hasPassword, waitSeconds, nScripts, forceTty, faults>>
ctl     == <<pc, retKind, retVal>>
port    == <<usePort, reachSeen>>
sess    == <<cli, connExc, closeCalls, closeRaised>>
script  == <<idx, steps, artifact, run, rcs>>
reboot  == <<waited, reach, firstUp, probe>>
\* No listing made yet: no call, nothing printed.
NoListing ==
  [rc |-> 0, lines |-> <<>>, via |-> "none", written |-> "",
   call |-> [sftpOk |-> FALSE, target |-> "none", listOk |-> FALSE,
             shellCode |-> 0, out |-> ""]]

files   == <<items, kinds, xfer, dirs, ensure, entries, listed>>
capture == <<chan, pty>>
config  == <<conf, trust, args, absp>>
more    == <<mirror, up, feed, thr, term>>

vars == <<profile, ctl, port, sess, script, reboot, logs, files, capture, config, more>>

(***************************************************************************)
(* Port resolution                                                         *)
(***************************************************************************)
\* check_port_open(host, port): a TCP connect succeeds iff the port is in the
\* set R of ports that accept connections at that moment.
check_port_open(R, p) == p \in R

\* Mutant: port 22 is returned as the fallback without being probed.
determine_ssh_port_NoFallbackProbe(configured_port, R) ==
  IF check_port_open(R, configured_port)
    THEN configured_port
    ELSE IF configured_port # DefaultPort THEN DefaultPort ELSE None

\* determine_ssh_port(configured_port, host), R the reachable ports.
determine_ssh_port(configured_port, R) ==
  IF check_port_open(R, configured_port)
    THEN configured_port
    ELSE IF configured_port # DefaultPort
           THEN IF check_port_open(R, DefaultPort) THEN DefaultPort ELSE None
           ELSE None

(***************************************************************************)
(* SSHClient                                                               *)
(*   client    : self.client is set (it holds the library client c)        *)
(*   transport : self.transport                                            *)
(*   lib       : the transport the library client c holds (c._transport)   *)
(*   open      : the transports of this process that are open              *)
(*   next      : number of transports created so far                       *)
(*   attempts  : the c.connect calls made by connect(), with their options  *)
(***************************************************************************)
ConnOutcomes == {"ok", "auth", "other"}

\* SSHClient.__init__: a new object, no client, no transport.
SSHClient_init(s) ==
  [s EXCEPT !.client = FALSE, !.transport = None, !.lib = None, !.attempts = <<>>]

\* A c.connect call as recorded: its options and what it did.
Attempt(opts, outcome) ==
  [password |-> opts.password, key_filename |-> opts.key_filename,
   look_for_keys |-> opts.look_for_keys, allow_agent |-> opts.allow_agent,
   outcome |-> outcome]

\* One c.connect(...) of the library client.  "ok" and "auth" have opened a
\* transport (the TCP connection and the SSH handshake precede authentication),
\* which c holds; "auth" then raises AuthenticationException and the library
\* leaves that transport open.  "other" (timeout, refused) raises before a
\* transport exists.
lib_connect(s, outcome, opts) ==
  IF outcome = "other"
    THEN [s EXCEPT !.attempts = Append(@, Attempt(opts, outcome))]
    ELSE [s EXCEPT !.attempts = Append(@, Attempt(opts, outcome)),
                   !.next = @ + 1,
                   !.open = @ \cup {s.next + 1},
                   !.lib  = s.next + 1]

\* c.close() of the library client: closes the transport c holds.  When it
\* raises, the transport has not been closed.
lib_close(s, raises) ==
  IF raises \/ s.lib = None
    THEN s
    ELSE [s EXCEPT !.open = @ \ {s.lib}, !.lib = None]

FirstOpts(keyExists) ==
  [password |-> FALSE, key_filename |-> keyExists,
   look_for_keys |-> TRUE, allow_agent |-> TRUE]

RetryOpts ==
  [password |-> TRUE, key_filename |-> FALSE,
   look_for_keys |-> FALSE, allow_agent |-> TRUE]

\* Mutant: every failure of the first attempt is retried with the password.
SSHClient_connect_RetryAnyError(s, pw, keyExists, out1, out2) ==
  LET a1 == lib_connect(s, out1, FirstOpts(keyExists))
      a2 == lib_connect(a1, out2, RetryOpts)
      done(a) == [a EXCEPT !.client = TRUE, !.transport = a.lib]
  IN  IF out1 = "ok" THEN [s |-> done(a1), exc |-> "none"]
      ELSE IF pw
        THEN IF out2 = "ok" THEN [s |-> done(a2), exc |-> "none"]
                            ELSE [s |-> a2, exc |-> out2]
        ELSE [s |-> a1, exc |-> out1]

\* SSHClient.connect.  out1, out2: what the first and the second c.connect do;
\* pw: self.password is non-empty; keyExists: self.key_path names a file.
\* Result: the session and the exception connect() raised ("none": returned).
SSHClient_connect(s, pw, keyExists, out1, out2) ==
  LET a1 == lib_connect(s, out1, FirstOpts(keyExists))
      a2 == lib_connect(a1, out2, RetryOpts)
      done(a) == [a EXCEPT !.client = TRUE, !.transport = a.lib]
  IN  IF out1 = "ok" THEN [s |-> done(a1), exc |-> "none"]
      ELSE IF out1 = "auth" /\ pw
        THEN IF out2 = "ok" THEN [s |-> done(a2), exc |-> "none"]
                            ELSE [s |-> a2, exc |-> out2]
        ELSE [s |-> a1, exc |-> out1]

\* Mutant: no finally clause; the fields are reset only when c.close() returned.
SSHClient_close_NoFinally(s, raises) ==
  LET a == IF s.client THEN lib_close(s, raises) ELSE s
  IN  IF s.client /\ raises
        THEN [s |-> a, raised |-> TRUE]
        ELSE [s |-> [a EXCEPT !.client = FALSE, !.transport = None], raised |-> FALSE]

\* SSHClient.close: try: if self.client: self.client.close()
\*                  finally: self.client = None; self.transport = None
SSHClient_close(s, raises) ==
  LET a == IF s.client THEN lib_close(s, raises) ELSE s
  IN  [s |-> [a EXCEPT !.client = FALSE, !.transport = None],
       raised |-> s.client /\ raises]

(***************************************************************************)
(* Script deployment                                                       *)
(***************************************************************************)
SftpOutcomes == {"ok", "unavailable"}
SinkOutcomes == {"ok", "sendfail", "cmdfail", "chanfail"}

\* upload_script.  sftp: what the SFTP transfer does; sink: what the fallback
\* `mkdir -p dir && cat > path` channel does ("sendfail": sendall raised after a
\* prefix, "cmdfail": the remote command exits non-zero before creating the
\* file, "chanfail": the channel cannot be opened or the command not started).
\* Result: the remote file and whether upload_script raised.
upload_script(sftp, sink) ==
  IF sftp = "ok" THEN [artifact |-> "full", raised |-> FALSE]
  ELSE CASE sink = "ok"       -> [artifact |-> "full",    raised |-> FALSE]
         [] sink = "sendfail" -> [artifact |-> "partial", raised |-> FALSE]
         [] sink = "cmdfail"  -> [artifact |-> "none",    raised |-> FALSE]
         [] sink = "chanfail" -> [artifact |-> "none",    raised |-> TRUE]

\* detect_remote_shell.  probeOk: the probe command ran and exited 0 in time;
\* hasBash: bash is installed on the remote host.
detect_remote_shell(probeOk, hasBash) ==
  IF probeOk /\ ~hasBash THEN "sh" ELSE "bash"

\* Exit status of a shell and-list  c1 && c2 && ... : the status of the first
\* command that fails, else of the last one; ran counts the commands started.
RECURSIVE and_list(_)
and_list(sts) ==
  IF Len(sts) = 1 \/ sts[1] # 0
    THEN [status |-> sts[1], ran |-> 1]
    ELSE LET r == and_list(Tail(sts))
         IN  [status |-> r.status, ran |-> r.ran + 1]

\* rm -f path: removes the file, status 0 whether or not the file exists.
rm_f(art) == [artifact |-> "none", status |-> 0]

\* Mutant: `... && rm -f P`: the removal is chained to the script's success.
remote_command_RmOnSuccess(cdSt, chmodSt, runSt, art) ==
  LET a == and_list(<<cdSt, chmodSt, runSt>>)
  IN  [exit |-> a.status, started |-> a.ran = 3,
       artifact |-> IF a.status = 0 THEN rm_f(art).artifact ELSE art]

\* Mutant: `...; rm -f P; exit $?`: the channel exits with rm's status.
remote_command_ExitRm(cdSt, chmodSt, runSt, art) ==
  LET a  == and_list(<<cdSt, chmodSt, runSt>>)
      rm == rm_f(art)
  IN  [exit |-> rm.status, started |-> a.ran = 3, artifact |-> rm.artifact]

\* The command execute_remote_script sends:
\*   cd ~ && chmod +x P && <shell> P args ; rc=$?; rm -f P; exit $rc
\* cdSt, chmodSt, runSt: the statuses cd, chmod and the shell invocation have
\* when they run.  Result: the channel's exit status, whether the shell
\* invocation was started, and the remote file afterwards.
remote_command(cdSt, chmodSt, runSt, art) ==
  LET a  == and_list(<<cdSt, chmodSt, runSt>>)
      rc == a.status
      rm == rm_f(art)
  IN  [exit |-> rc, started |-> a.ran = 3, artifact |-> rm.artifact]

\* The streaming part of execute_remote_script, after exec_command.
\* tty: force_tty; hasOutput: the loop read at least one line of output;
\* interrupt: Ctrl-C arrived while streaming; exit: the channel's exit status.
\* Both TTY branches return rc from a finally block; the capture-only branch
\* calls log_remote(alias, remote_path.name, line) on a str for each line.
stream_output(tty, hasOutput, interrupt, exit) ==
  IF tty THEN [rc |-> exit, exc |-> "none"]
  ELSE IF hasOutput THEN [rc |-> exit, exc |-> "AttributeError"]
  ELSE IF interrupt THEN [rc |-> exit, exc |-> "KeyboardInterrupt"]
  ELSE [rc |-> exit, exc |-> "none"]

\* Status of `<shell> P args`: 127 (command not found) when the wrapper names a
\* shell the host does not have, else the script's own exit status.
run_status(shell, hasBash, rc) ==
  IF shell = "bash" /\ ~hasBash THEN 127 ELSE rc

(***************************************************************************)
(* Control                                                                 *)
(***************************************************************************)
Return(v) == pc' = "done" /\ retKind' = "returned" /\ retVal' = v
Raise     == pc' = "done" /\ retKind' = "raised" /\ retVal' = retVal
Goto(l)   == pc' = l /\ UNCHANGED <<retKind, retVal>>
Log(m)    == logs' = logs \cup m
\* What a loop iteration decided: return st.val, or go on at st.next.
Continue(st) == IF st.next = "return" THEN Return(st.val) ELSE Goto(st.next)

CloseOutcomes == IF faults THEN BOOLEAN ELSE {FALSE}

\* cli.close() as the operations call it; the caller decides what a raise does.
Closed(s, raises) == SSHClient_close(s, raises).s

FreshCli == [client |-> FALSE, transport |-> None, lib |-> None,
             open |-> {}, next |-> 0, attempts |-> <<>>]

NoEnv == [SSH_PORT |-> <<>>, ACTUAL_PORT |-> <<>>, ADMIN_USER |-> ""]
NoRun == [uploaded |-> "none", cdSt |-> 0, chmodSt |-> 0, started |-> FALSE, rc |-> 0,
          env |-> NoEnv, shell |-> "none", found |-> FALSE]

\* No transfer, listing or capture is in progress.
NoFiles ==
  /\ items = <<>> /\ kinds = <<>> /\ dirs = {} /\ entries = <<>>
  /\ xfer = [dest |-> <<>>, i |-> 1, any_error |-> 0, reported |-> {}, copied |-> {}]
  /\ ensure = [path |-> <<>>, calls |-> 0, mkdirs |-> <<>>, made |-> <<>>]
  /\ listed = NoListing

NoCapture ==
  /\ chan = [out |-> 0, err |-> 0, exit |-> FALSE, toOut |-> 0, toErr |-> 0,
             read |-> 0, rc |-> 0, exc |-> "none"]
  /\ pty = [printed |-> <<>>, logged |-> <<>>, intr |-> FALSE]

\* No configuration block is being parsed.
NoConf  == conf = [given |-> FALSE, text |-> <<>>, parsed |-> FALSE, port |-> 0]
\* No host key has been presented.
NoTrust == trust = [known |-> 0, presented |-> 0, verdict |-> "none",
                    stored |-> 0, saved |-> FALSE]
\* No argument list is being selected.
NoArgs  == args = [cli_given |-> FALSE, cli |-> <<>>, mapped |-> FALSE, map |-> <<>>,
                   default |-> <<>>, selected |-> FALSE, eff |-> <<>>]
\* No remote path is being normalised.
NoAbs   == absp = [home |-> <<"/">>, path |-> <<>>, calls |-> 0, out |-> <<>>, again |-> <<>>]
NoConfig == NoConf /\ NoTrust /\ NoArgs /\ NoAbs

\* No directory is being downloaded.
NoMirror == mirror = [tree |-> {}, recursive |-> FALSE, walked |-> FALSE,
                      copied |-> {}, skipped |-> {}]
\* No script is being uploaded by itself.
NoUp == up = [plan |-> [open |-> TRUE, stat |-> TRUE, mkdir |-> TRUE, put |-> TRUE,
                        sink |-> "ok"],
              trace |-> <<>>, artifact |-> "none"]
\* No stream is being split into lines.
NoFeed == feed = [stream |-> <<>>, rest |-> <<>>, emitted |-> <<>>, chunks |-> 0]
\* No reader thread exists.
NoThr == thr = [started |-> FALSE, reader |-> "none", stop |-> FALSE]
\* No interactive shell is running.
NoTerm == term = [isatty |-> FALSE, saved |-> FALSE, raw |-> FALSE, open |-> FALSE,
                  toLocal |-> 0, toRemote |-> 0, exit |-> "none"]
NoMore == NoMirror /\ NoUp /\ NoFeed /\ NoThr /\ NoTerm

InitCommon ==
  /\ retKind = "running" /\ retVal = 0
  /\ usePort = None /\ reachSeen = {}
  /\ cli = FreshCli /\ connExc = "none" /\ closeCalls = 0 /\ closeRaised = FALSE
  /\ steps = {} /\ artifact = "none"
  /\ run = NoRun /\ rcs = <<>>
  /\ logs = {}
  /\ waited = 0 /\ reach = TRUE /\ firstUp = -1
  /\ probe = [port |-> None, phase |-> "none", n |-> 0]

Init ==
  /\ op \in Ops
  /\ pc = CASE op = "run-scripts"  -> "begin"
            [] op = "router-webui" -> "alias"
            [] OTHER               -> "resolve"
  /\ cfgPort \in Ports
  /\ hasPassword \in BOOLEAN
  /\ user \in (IF op = "run-script" THEN Users ELSE {"root"})
  /\ waitSeconds \in (IF op = "reboot" THEN WaitValues ELSE {0})
  /\ nScripts \in (CASE op = "run-scripts" -> 0..MaxScripts
                     [] op = "run-script"  -> {1}
                     [] OTHER              -> {0})
  /\ forceTty \in (IF op \in ScriptOps THEN BOOLEAN ELSE {FALSE})
  /\ idx = (IF op = "run-script" THEN 1 ELSE 0)
  /\ faults = FALSE
  /\ InitCommon /\ NoMore /\ NoFiles /\ NoCapture /\ NoConfig

(***************************************************************************)
(* Steps shared by the operations                                          *)
(***************************************************************************)
\* determine_ssh_port as every operation calls it, followed by
\* `if not port: return 1`.
Resolve ==
  /\ pc = "resolve"
  /\ \E R \in SUBSET Ports :
       LET p == determine_ssh_port(cfgPort, R)
       IN  /\ usePort' = p
           /\ reachSeen' = R
           /\ IF p = None
                THEN Return(1) /\ Log({"port_unreachable"})
                ELSE /\ Goto(CASE op = "login"      -> "hook"
                               [] op \in ScriptOps  -> "exists"
                               [] OTHER             -> "connect")
                     /\ UNCHANGED logs
  /\ steps' = IF op \in ScriptOps THEN steps \cup {<<idx, "probe">>} ELSE steps
  /\ UNCHANGED <<profile, more, config, files, capture, sess, idx, artifact, run, rcs, reboot>>

\* cli = SSHClient(...); cli.connect(timeout=5): the new session and what
\* connect raised.
NewConnect(keyExists, out1, out2) ==
  SSHClient_connect(SSHClient_init(cli), hasPassword, keyExists, out1, out2)

(***************************************************************************)
(* login                                                                   *)
(***************************************************************************)
\* ssh_login: _run_local_hook("login", ...); a hook that exists replaces the
\* built-in login and its exit code is returned.
LoginHook ==
  /\ op = "login" /\ pc = "hook"
  /\ \E hook \in BOOLEAN, hook_rc \in ExitCodes :
       IF hook THEN Return(hook_rc) ELSE Goto("connect")
  /\ UNCHANGED <<profile, more, config, files, capture, port, sess, script, reboot, logs>>

\* ssh_login: try: connect ... except Exception: return 1; finally: close.
LoginConnect ==
  /\ op = "login" /\ pc = "connect"
  /\ \E keyExists \in BOOLEAN, out1, out2 \in ConnOutcomes, raises \in CloseOutcomes :
       LET r == NewConnect(keyExists, out1, out2)
       IN  /\ connExc' = r.exc
           /\ IF r.exc = "none"
                THEN /\ cli' = r.s /\ Goto("shell")
                     /\ UNCHANGED <<closeCalls, closeRaised, logs>>
                ELSE /\ cli' = Closed(r.s, raises)
                     /\ closeCalls' = 1 /\ closeRaised' = SSHClient_close(r.s, raises).raised
                     /\ Log({"auth_error"}) /\ Return(1)
  /\ UNCHANGED <<profile, more, config, files, capture, port, script, reboot>>

\* ssh_login: cli.interactive_shell(); return 0, with the except and finally
\* clauses.  interactive_shell catches KeyboardInterrupt itself and returns.
LoginShell ==
  /\ op = "login" /\ pc = "shell"
  /\ \E outcome \in {"eof", "interrupt", "error"}, raises \in CloseOutcomes :
       /\ cli' = Closed(cli, raises)
       /\ closeCalls' = closeCalls + 1
       /\ closeRaised' = SSHClient_close(cli, raises).raised
       /\ IF outcome = "error"
            THEN Log({"auth_error"}) /\ Return(1)
            ELSE Log({"disconnected"}) /\ Return(0)
  /\ UNCHANGED <<profile, more, config, files, capture, port, connExc, script, reboot>>

(***************************************************************************)
(* ls-remote, download, upload, cp                                         *)
(***************************************************************************)
\* main: try: connect; return work(cli) except Exception: return 1
\*       finally: try: cli.close() except Exception: pass
TransferConnect ==
  /\ op \in TransferOps /\ pc = "connect"
  /\ \E keyExists \in BOOLEAN, out1, out2 \in ConnOutcomes, raises \in CloseOutcomes :
       LET r == NewConnect(keyExists, out1, out2)
       IN  /\ connExc' = r.exc
           /\ IF r.exc = "none"
                THEN /\ cli' = r.s /\ Goto("work")
                     /\ UNCHANGED <<closeCalls, closeRaised, logs>>
                ELSE /\ cli' = Closed(r.s, raises)
                     /\ closeCalls' = 1 /\ closeRaised' = SSHClient_close(r.s, raises).raised
                     /\ Log({"sftp_error"}) /\ Return(1)
  /\ UNCHANGED <<profile, more, config, files, capture, port, script, reboot>>

\* The transfer itself (sftp_list_directory, download_items, upload_items)
\* returns 0 or 1 or raises.
TransferWork ==
  /\ op \in TransferOps /\ pc = "work"
  /\ \E outcome \in {"rc0", "rc1", "error"}, raises \in CloseOutcomes :
       /\ cli' = Closed(cli, raises)
       /\ closeCalls' = closeCalls + 1
       /\ closeRaised' = SSHClient_close(cli, raises).raised
       /\ CASE outcome = "rc0"   -> Return(0) /\ UNCHANGED logs
            [] outcome = "rc1"   -> Return(1) /\ UNCHANGED logs
            [] outcome = "error" -> Return(1) /\ Log({"sftp_error"})
  /\ UNCHANGED <<profile, more, config, files, capture, port, connExc, script, reboot>>

(***************************************************************************)
(* router-webui                                                            *)
(***************************************************************************)
RouterAliasCheck ==
  /\ op = "router-webui" /\ pc = "alias"
  /\ \E isRouter \in BOOLEAN :
       IF isRouter THEN Goto("resolve") /\ UNCHANGED logs
                   ELSE Return(1) /\ Log({"not_router"})
  /\ UNCHANGED <<profile, more, config, files, capture, port, sess, script, reboot>>

\* router_webui: try: connect except Exception: return 1 (no close).
RouterConnect ==
  /\ op = "router-webui" /\ pc = "connect"
  /\ \E keyExists \in BOOLEAN, out1, out2 \in ConnOutcomes :
       LET r == NewConnect(keyExists, out1, out2)
       IN  /\ connExc' = r.exc
           /\ cli' = r.s
           /\ IF r.exc = "none"
                THEN Goto("run") /\ UNCHANGED logs
                ELSE Log({"connection_failed"}) /\ Return(1)
  /\ UNCHANGED <<profile, more, config, files, capture, port, closeCalls, closeRaised, script, reboot>>

\* router_webui: code = cli.run(cmd); return code, or 0; finally close.
RouterRun ==
  /\ op = "router-webui" /\ pc = "run"
  /\ \E code \in ExitCodes, raises \in CloseOutcomes :
       /\ cli' = Closed(cli, raises)
       /\ closeCalls' = closeCalls + 1
       /\ closeRaised' = SSHClient_close(cli, raises).raised
       /\ Return(code)
  /\ UNCHANGED <<profile, more, config, files, capture, port, connExc, script, reboot, logs>>

(***************************************************************************)
(* run-script and run-scripts                                              *)
(***************************************************************************)
\* run_scripts: `if not sc.scripts: return 0`, else the loop starts at the
\* first script.
RunScriptsBegin ==
  /\ op = "run-scripts" /\ pc = "begin"
  /\ IF nScripts = 0
       THEN Return(0) /\ Log({"no_scripts"}) /\ UNCHANGED idx
       ELSE Goto("resolve") /\ idx' = 1 /\ UNCHANGED logs
  /\ UNCHANGED <<profile, more, config, files, capture, port, sess, steps, artifact, run, rcs, reboot>>

\* `if not local_script.exists(): return 1`
LocalScript ==
  /\ op \in ScriptOps /\ pc = "exists"
  /\ \E exists \in BOOLEAN :
       IF exists THEN Goto("connect") /\ UNCHANGED logs
                 ELSE Return(1) /\ Log({"script_not_found"})
  /\ UNCHANGED <<profile, more, config, files, capture, port, sess, script, reboot>>

\* try: cli = SSHClient(...); cli.connect() except Exception: return 1
ScriptConnect ==
  /\ op \in ScriptOps /\ pc = "connect"
  /\ \E keyExists \in BOOLEAN, out1, out2 \in ConnOutcomes :
       LET r == NewConnect(keyExists, out1, out2)
       IN  /\ connExc' = r.exc
           /\ cli' = r.s
           /\ IF r.exc = "none"
                THEN Goto("upload") /\ UNCHANGED logs
                ELSE Log({"connection_failed"}) /\ Return(1)
  /\ closeCalls' = 0 /\ closeRaised' = FALSE
  /\ steps' = steps \cup {<<idx, "connect">>}
  /\ UNCHANGED <<profile, more, config, files, capture, port, idx, artifact, run, rcs, reboot>>

\* Mutant: the session is left open when the try block ends.
FinallyClose_NoClose(raises, result) ==
  result /\ UNCHANGED <<cli, closeCalls, closeRaised>>

\* The finally clause of run_scripts and run_single_script: cli.close(), whose
\* exception, if any, replaces the result of the try block.
FinallyClose(raises, result) ==
  /\ cli' = Closed(cli, raises)
  /\ closeCalls' = closeCalls + 1
  /\ closeRaised' = SSHClient_close(cli, raises).raised
  /\ IF SSHClient_close(cli, raises).raised THEN Raise ELSE result

\* remote_path = upload_script(cli, local_script)
Upload ==
  /\ op \in ScriptOps /\ pc = "upload"
  /\ \E sftp \in SftpOutcomes, sink \in SinkOutcomes, raises \in CloseOutcomes :
       LET u == upload_script(sftp, sink)
       IN  /\ artifact' = u.artifact
           /\ IF u.raised
                THEN FinallyClose(raises, Raise)
                ELSE Goto("execute") /\ UNCHANGED <<cli, closeCalls, closeRaised>>
  /\ steps' = steps \cup {<<idx, "upload">>}
  /\ UNCHANGED <<profile, more, config, files, capture, port, connExc, idx, run, rcs, reboot, logs>>

\* Mutant: a failing script does not stop the loop.
after_execute_NoFailFast(rc, i, total) ==
  IF i < total THEN [next |-> "loop", val |-> 0]
  ELSE [next |-> "return", val |-> rc]

\* str(n) of an integer: its decimal digits, with a sign when negative.
DigitChars == <<"0", "1", "2", "3", "4", "5", "6", "7", "8", "9">>

RECURSIVE str(_)
str(n) ==
  IF n < 0 THEN <<"-">> \o str(0 - n)
  ELSE IF n < 10 THEN <<DigitChars[n + 1]>>
  ELSE Append(str(n \div 10), DigitChars[(n % 10) + 1])

\* Mutant: both port variables carry the port in use.
script_env_ActualForBoth(configured_port, actual_port, sc_user) ==
  [SSH_PORT |-> str(actual_port), ACTUAL_PORT |-> str(actual_port), ADMIN_USER |-> sc_user]

\* execute_remote_script, the env dictionary whose entries are attached to the
\* channel with chan.update_environment before exec_command.  The two key
\* entries (SSH_KEY_PATH, SSH_PUBLIC_KEY) depend on neither port nor user and
\* are left out; a server that refuses an entry is not reported by the code.
script_env(configured_port, actual_port, sc_user) ==
  [SSH_PORT |-> str(configured_port), ACTUAL_PORT |-> str(actual_port), ADMIN_USER |-> sc_user]

\* What follows execute_remote_script in run_single_script (idx = total = 1)
\* and in the loop body of run_scripts: a non-zero rc is returned; after the
\* last script 0 is returned; otherwise the loop goes on to the next script.
\* The session is closed in each case.
after_execute(rc, i, total) ==
  IF rc # 0 THEN [next |-> "return", val |-> rc]
  ELSE IF i < total THEN [next |-> "loop", val |-> 0]
  ELSE [next |-> "return", val |-> 0]

\* rc = execute_remote_script(...), and the rest of the try block.
Execute ==
  /\ op \in ScriptOps /\ pc = "execute"
  /\ \E probeOk, hasBash, hasOutput, interrupt \in BOOLEAN,
        cdSt, chmodSt \in {0, 1}, rc \in ExitCodes, raises \in CloseOutcomes :
       LET shell == detect_remote_shell(probeOk, hasBash)
           runSt == run_status(shell, hasBash, rc)
           cmd   == remote_command(cdSt, chmodSt, runSt, artifact)
           out   == stream_output(forceTty, hasOutput, interrupt, cmd.exit)
           nxt   == after_execute(out.rc, idx, nScripts)
       IN  /\ artifact = "none" => chmodSt # 0     \* chmod of a missing file fails
           /\ artifact' = cmd.artifact
           /\ run' = [uploaded |-> artifact, cdSt |-> cdSt, chmodSt |-> chmodSt,
                       started |-> cmd.started /\ (shell = "sh" \/ hasBash),
                       rc |-> rc,
                       env |-> script_env(cfgPort, usePort, user),
                       shell |-> shell, found |-> probeOk /\ hasBash]
           /\ IF out.exc # "none"
                THEN /\ FinallyClose(raises, Raise)
                     /\ UNCHANGED <<rcs, idx, logs>>
                ELSE /\ rcs' = Append(rcs, out.rc)
                     /\ IF nxt.next = "return"
                          THEN /\ FinallyClose(raises, Return(nxt.val))
                               /\ Log(IF nxt.val # 0 THEN {"script_failed"}
                                                     ELSE {"script_ok"})
                               /\ UNCHANGED idx
                          ELSE /\ FinallyClose(raises, Goto("resolve"))
                               /\ idx' = (IF SSHClient_close(cli, raises).raised
                                            THEN idx ELSE idx + 1)
                               /\ Log({"script_ok"})
  /\ steps' = steps \cup {<<idx, "execute">>}
  /\ UNCHANGED <<profile, more, config, files, capture, port, connExc, reboot>>

(***************************************************************************)
(* reboot                                                                  *)
(***************************************************************************)
\* reboot_server: try: connect ... except Exception: warn; finally: close.
RebootConnect ==
  /\ op = "reboot" /\ pc = "connect"
  /\ \E keyExists \in BOOLEAN, out1, out2 \in ConnOutcomes, raises \in CloseOutcomes :
       LET r == NewConnect(keyExists, out1, out2)
       IN  /\ connExc' = r.exc
           /\ IF r.exc = "none"
                THEN /\ cli' = r.s /\ Goto("issue")
                     /\ UNCHANGED <<closeCalls, closeRaised, logs>>
                ELSE /\ cli' = Closed(r.s, raises)
                     /\ closeCalls' = 1 /\ closeRaised' = SSHClient_close(r.s, raises).raised
                     /\ Log({"ssh_error"}) /\ Goto("waitcheck")
  /\ UNCHANGED <<profile, more, config, files, capture, port, script, reboot>>

\* Mutant: a connection dropped while the command runs fails the operation.
issue_step_FailOnDrop(outcome, code) ==
  IF outcome = "dropped"
    THEN [next |-> "return", val |-> 1, log |-> "ssh_error"]
    ELSE [next |-> "waitcheck", val |-> 0, log |-> "reboot_issued"]

\* reboot_server: code, _out, _err = cli.run(cmd, timeout=5) inside
\* try / except Exception: warn.  "code": run returned the exit status code
\* (the status of a channel closed on the timeout included); "dropped": run
\* raised because the host dropped the connection.  code is only logged.
issue_step(outcome, code) ==
  IF outcome = "dropped"
    THEN [next |-> "waitcheck", val |-> 0, log |-> "ssh_error"]
    ELSE [next |-> "waitcheck", val |-> 0, log |-> "reboot_issued"]

\* The issue step, with the finally clause that closes the session.
RebootIssue ==
  /\ op = "reboot" /\ pc = "issue"
  /\ \E outcome \in {"code", "dropped"}, code \in ExitCodes, raises \in CloseOutcomes :
       LET i == issue_step(outcome, code)
       IN  /\ cli' = Closed(cli, raises)
           /\ closeCalls' = closeCalls + 1
           /\ closeRaised' = SSHClient_close(cli, raises).raised
           /\ Log({i.log})
           /\ Continue(i)
  /\ UNCHANGED <<profile, more, config, files, capture, port, connExc, script, reboot>>

\* Mutant: the wait phases are entered whatever wait_seconds is.
wait_check_AlwaysWait(wait_seconds) == [next |-> "down", val |-> 0]

\* reboot_server: `if not wait_seconds: success(...); return 0`; wait_seconds
\* is None (no --wait) or 0 in the first case, both of which are 0 here.
wait_check(wait_seconds) ==
  IF wait_seconds = 0 THEN [next |-> "return", val |-> 0]
                      ELSE [next |-> "down", val |-> 0]

\* After the issue step: return, or begin the down phase.  The port may
\* already be closed when the down phase begins.
RebootWaitCheck ==
  /\ op = "reboot" /\ pc = "waitcheck"
  /\ LET w == wait_check(waitSeconds)
     IN  /\ Continue(w)
         /\ IF w.next = "return"
              THEN Log({"reboot_initiated"}) /\ UNCHANGED reboot
              ELSE /\ UNCHANGED logs
                   /\ waited' = 0
                   /\ reach' \in BOOLEAN
                   /\ UNCHANGED <<firstUp, probe>>
  /\ UNCHANGED <<profile, more, config, files, capture, port, sess, script>>

\* Mutant: the wait phases probe the configured port.
wait_port_Configured(configured_port, resolved) == configured_port

\* reboot_server: `port = determine_ssh_port(sc.port, sc.host)` is the port of
\* every check_port_open(sc.host, port) of the wait phases.
wait_port(configured_port, resolved) == resolved

\* Mutant: the down phase stops only after the limit has been exceeded.
down_step_LateTimeout(open, w) ==
  IF ~open THEN [next |-> "up", val |-> 0, waited |-> 0, warn |-> FALSE]
  ELSE IF w + DownInterval > DownTimeout
    THEN [next |-> "up", val |-> 0, waited |-> 0, warn |-> TRUE]
    ELSE [next |-> "down", val |-> 0, waited |-> w + DownInterval, warn |-> FALSE]

\* Mutant: the down-timeout is a failure.
down_step_FailOnTimeout(open, w) ==
  IF ~open THEN [next |-> "up", val |-> 0, waited |-> 0, warn |-> FALSE]
  ELSE IF w + DownInterval >= DownTimeout
    THEN [next |-> "return", val |-> 1, waited |-> w + DownInterval, warn |-> TRUE]
    ELSE [next |-> "down", val |-> 0, waited |-> w + DownInterval, warn |-> FALSE]

\* One iteration of `while check_port_open(): sleep(2); waited += 2;
\* if waited >= down_timeout: warn; break`, and `waited = 0` on leaving.
\* During the sleep the host may go down.
down_step(open, w) ==
  IF ~open THEN [next |-> "up", val |-> 0, waited |-> 0, warn |-> FALSE]
  ELSE IF w + DownInterval >= DownTimeout
    THEN [next |-> "up", val |-> 0, waited |-> 0, warn |-> TRUE]
    ELSE [next |-> "down", val |-> 0, waited |-> w + DownInterval, warn |-> FALSE]

DownProbe ==
  /\ op = "reboot" /\ pc = "down"
  /\ LET p == wait_port(cfgPort, usePort)
         d == down_step(check_port_open(IF reach THEN {usePort} ELSE {}, p), waited)
     IN  /\ Continue(d)
         /\ probe' = [port |-> p, phase |-> "down", n |-> probe.n + 1]
         /\ waited' = d.waited
         /\ Log(IF d.warn THEN {"still_reachable"} ELSE {})
         /\ IF reach THEN reach' \in BOOLEAN ELSE reach' = reach
  /\ UNCHANGED <<profile, more, config, files, capture, port, sess, script, firstUp>>

\* One iteration of `while not check_port_open(): sleep(3); waited += 3;
\* if waited >= wait_seconds: return 1`, and `return 0` on leaving.
up_step(open, w, limit) ==
  IF open THEN [next |-> "return", val |-> 0, waited |-> w]
  ELSE IF w + UpInterval >= limit
    THEN [next |-> "return", val |-> 1, waited |-> w + UpInterval]
    ELSE [next |-> "up", val |-> 0, waited |-> w + UpInterval]

\* During the sleep the host may come up, k seconds into it (k = 0: it does
\* not), and may go down again before the sleep ends.
UpProbe ==
  /\ op = "reboot" /\ pc = "up"
  /\ LET p == wait_port(cfgPort, usePort)
         u == up_step(check_port_open(IF reach THEN {usePort} ELSE {}, p),
                      waited, waitSeconds)
     IN  /\ waited' = u.waited
         /\ probe' = [port |-> p, phase |-> "up",
                      n |-> IF probe.phase = "up" THEN probe.n + 1 ELSE 1]
         /\ IF reach
              THEN /\ firstUp' = (IF firstUp < 0 THEN waited ELSE firstUp)
                   /\ reach' = reach
              ELSE \E k \in 0..UpInterval :
                     /\ firstUp' = (IF firstUp < 0 /\ k > 0 THEN waited + k ELSE firstUp)
                     /\ IF k = 0 THEN reach' = FALSE ELSE reach' \in BOOLEAN
         /\ Continue(u)
         /\ Log(IF u.next # "return" THEN {}
                ELSE IF u.val = 0 THEN {"back_online"} ELSE {"timeout"})
  /\ UNCHANGED <<profile, more, config, files, capture, port, sess, script>>

(***************************************************************************)
(* The invocation                                                          *)
(***************************************************************************)
Next ==
  \/ Resolve
  \/ LoginHook \/ LoginConnect \/ LoginShell
  \/ TransferConnect \/ TransferWork
  \/ RouterAliasCheck \/ RouterConnect \/ RouterRun
  \/ RunScriptsBegin \/ LocalScript \/ ScriptConnect \/ Upload \/ Execute
  \/ RebootConnect \/ RebootIssue \/ RebootWaitCheck \/ DownProbe \/ UpProbe

Spec == Init /\ [][Next]_vars

\* reboot_server alone, as a program that keeps running: no step of it is
\* postponed for ever.
RebootInit == Init /\ op = "reboot"

RebootNext ==
  \/ Resolve
  \/ RebootConnect \/ RebootIssue \/ RebootWaitCheck \/ DownProbe \/ UpProbe

SpecReboot == RebootInit /\ [][RebootNext]_vars /\ WF_vars(RebootNext)

(***************************************************************************)
(* The invocation with a session whose close() may fail.                   *)
(***************************************************************************)
FaultInit ==
  /\ op \in Ops
  /\ pc = CASE op = "run-scripts"  -> "begin"
            [] op = "router-webui" -> "alias"
            [] OTHER               -> "resolve"
  /\ cfgPort \in Ports
  /\ hasPassword \in BOOLEAN
  /\ user \in (IF op = "run-script" THEN Users ELSE {"root"})
  /\ waitSeconds \in (IF op = "reboot" THEN {0, UpInterval} ELSE {0})
  /\ nScripts \in (CASE op = "run-scripts" -> 0..MaxScripts
                     [] op = "run-script"  -> {1}
                     [] OTHER              -> {0})
  /\ forceTty \in (IF op \in ScriptOps THEN BOOLEAN ELSE {FALSE})
  /\ idx = (IF op = "run-script" THEN 1 ELSE 0)
  /\ faults = TRUE
  /\ InitCommon /\ NoMore /\ NoFiles /\ NoCapture /\ NoConfig

SpecFaults == FaultInit /\ [][Next]_vars

(***************************************************************************)
(* One SSHClient object on its own: connect() at most once, then close()   *)
(* any number of times; the library's close() may raise.                   *)
(***************************************************************************)
ClientInit ==
  /\ op = "client" /\ pc = "client"
  /\ cfgPort \in Ports
  /\ hasPassword \in BOOLEAN
  /\ user = "root"
  /\ waitSeconds = 0 /\ nScripts = 0 /\ forceTty = FALSE /\ idx = 0
  /\ faults = TRUE
  /\ InitCommon /\ NoMore /\ NoFiles /\ NoCapture /\ NoConfig

ClientConnect ==
  /\ pc = "client" /\ cli.attempts = <<>> /\ closeCalls = 0
  /\ \E keyExists \in BOOLEAN, out1, out2 \in ConnOutcomes :
       LET r == SSHClient_connect(cli, hasPassword, keyExists, out1, out2)
       IN  cli' = r.s /\ connExc' = r.exc
  /\ UNCHANGED <<profile, more, config, files, capture, ctl, port, closeCalls, closeRaised, script, reboot, logs>>

ClientClose ==
  /\ pc = "client" /\ closeCalls < MaxCloseCalls
  /\ \E raises \in CloseOutcomes :
       LET r == SSHClient_close(cli, raises)
       IN  cli' = r.s /\ closeRaised' = r.raised
  /\ closeCalls' = closeCalls + 1
  /\ UNCHANGED <<profile, more, config, files, capture, ctl, port, connExc, script, reboot, logs>>

ClientNext == ClientConnect \/ ClientClose

SpecClient == ClientInit /\ [][ClientNext]_vars

(***************************************************************************)
(* File transfer helpers.  A remote path is the sequence of its components *)
(* (<<>> is "/"); dirs holds the directories that exist besides "/".       *)
(***************************************************************************)
Prefixes(p) == {SubSeq(p, 1, k) : k \in 1..Len(p)}
PrefixClosed(fs) == \A p \in fs : Prefixes(p) \subseteq fs

\* sftp.stat(path) succeeds (no IOError).
stat(fs, p) == p = <<>> \/ p \in fs

\* sftp.mkdir(path): creates the directory when its parent exists and the
\* path does not; otherwise it raises and creates nothing.
mkdir(fs, p) ==
  IF stat(fs, SubSeq(p, 1, Len(p) - 1)) /\ ~stat(fs, p) THEN fs \cup {p} ELSE fs

\* Mutant: every component is created without asking whether it exists.
RECURSIVE ensure_remote_dir_NoStat(_, _, _, _)
ensure_remote_dir_NoStat(fs, parts, k, made) ==
  IF k > Len(parts) THEN [dirs |-> fs, mkdirs |-> made, exc |-> "none"]
  ELSE LET path == SubSeq(parts, 1, k)
       IN  ensure_remote_dir_NoStat(mkdir(fs, path), parts, k + 1, Append(made, path))

\* _ensure_remote_dir(sftp, remote_dir) from component k on: for each
\* component the path so far is stat'ed and, on IOError, mkdir'ed with every
\* exception of mkdir swallowed.  "" and "/" have no component.  made: the
\* mkdir calls issued.  No statement of the function lets an error out.
RECURSIVE ensure_remote_dir(_, _, _, _)
ensure_remote_dir(fs, parts, k, made) ==
  IF k > Len(parts) THEN [dirs |-> fs, mkdirs |-> made, exc |-> "none"]
  ELSE LET path == SubSeq(parts, 1, k)
       IN  IF stat(fs, path)
             THEN ensure_remote_dir(fs, parts, k + 1, made)
             ELSE ensure_remote_dir(mkdir(fs, path), parts, k + 1, Append(made, path))

\* Mutant: a missing remote path is reported but does not set any_error.
download_step_NoErrorFlag(kind, st) ==
  IF kind = "missing"
    THEN [st EXCEPT !.reported = @ \cup {st.i}, !.i = @ + 1]
    ELSE [st EXCEPT !.copied = @ \cup {st.i}, !.i = @ + 1]

\* download_items, one iteration of `for rp in remote_paths`: sftp.stat fails
\* -> error, any_error = 1, continue; a directory is walked and a file is
\* fetched into local_dest.
download_step(kind, st) ==
  IF kind = "missing"
    THEN [st EXCEPT !.any_error = 1, !.reported = @ \cup {st.i}, !.i = @ + 1]
    ELSE [st EXCEPT !.copied = @ \cup {st.i}, !.i = @ + 1]

\* Mutant: the first missing local path ends the batch.
upload_step_BreakOnMissing(kind, st) ==
  IF kind = "missing"
    THEN [st EXCEPT !.any_error = 1, !.reported = @ \cup {st.i}, !.i = MaxItems + 2]
    ELSE [st EXCEPT !.copied = @ \cup {st.i}, !.i = @ + 1]

\* upload_items, one iteration of `for lp in local_paths`: not lp.exists()
\* -> error, any_error = 1, continue; a directory is walked and a file is put
\* into dest_abs.
upload_step(kind, st) ==
  IF kind = "missing"
    THEN [st EXCEPT !.any_error = 1, !.reported = @ \cup {st.i}, !.i = @ + 1]
    ELSE [st EXCEPT !.copied = @ \cup {st.i}, !.i = @ + 1]

\* download_items / upload_items called on a connected session.
TransferInit ==
  /\ op \in {"download", "upload"} /\ pc = "items"
  /\ cfgPort = DefaultPort /\ hasPassword = FALSE /\ user = "root"
  /\ waitSeconds = 0 /\ nScripts = 0 /\ forceTty = FALSE /\ idx = 0
  /\ faults = FALSE
  /\ InitCommon /\ NoMore /\ NoCapture /\ NoConfig
  /\ items \in ItemLists
  /\ kinds \in [Names -> PathKinds]
  /\ \E dest \in Paths :
       /\ xfer = [dest |-> dest, i |-> 0, any_error |-> 0, reported |-> {}, copied |-> {}]
       /\ dirs \in (IF op = "upload"
                      THEN {Prefixes(d) : d \in Prefixes(dest) \cup {<<>>}}
                      ELSE {{}})
  /\ ensure = [path |-> <<>>, calls |-> 0, mkdirs |-> <<>>, made |-> <<>>]
  /\ entries = <<>> /\ listed = NoListing

\* Before the loop: download_items creates local_dest; upload_items calls
\* _ensure_remote_dir(sftp, dest_abs).  any_error = 0.
TransferBegin ==
  /\ pc = "items" /\ xfer.i = 0
  /\ xfer' = [xfer EXCEPT !.i = 1]
  /\ IF op = "upload"
       THEN LET e == ensure_remote_dir(dirs, xfer.dest, 1, <<>>)
            IN  /\ dirs' = e.dirs
                /\ ensure' = [path |-> xfer.dest, calls |-> 1, mkdirs |-> e.mkdirs,
                            made |-> e.mkdirs]
       ELSE UNCHANGED <<dirs, ensure>>
  /\ UNCHANGED <<profile, more, config, ctl, port, sess, script, reboot, logs, capture,
                 items, kinds, entries, listed>>

\* One iteration of the loop over the paths.  An uploaded directory is
\* created on the remote side by _walk_local_dir.
TransferItem ==
  /\ pc = "items" /\ xfer.i \in 1..Len(items)
  /\ LET name == items[xfer.i]
         kind == kinds[name]
     IN  IF op = "download"
           THEN /\ xfer' = download_step(kind, xfer)
                /\ Log(IF kind = "missing" THEN {"remote_not_found"} ELSE {"downloaded"})
                /\ UNCHANGED <<dirs, ensure>>
           ELSE /\ xfer' = upload_step(kind, xfer)
                /\ Log(IF kind = "missing" THEN {"local_not_found"} ELSE {"uploaded"})
                /\ IF kind = "dir"
                     THEN LET path == Append(xfer.dest, name)
                              e    == ensure_remote_dir(dirs, path, 1, <<>>)
                          IN  /\ dirs' = e.dirs
                              /\ ensure' = [path |-> path, calls |-> ensure.calls + 1,
                                            mkdirs |-> e.mkdirs,
                                            made |-> ensure.made \o e.mkdirs]
                     ELSE UNCHANGED <<dirs, ensure>>
  /\ UNCHANGED <<profile, more, config, ctl, port, sess, script, reboot, capture,
                 items, kinds, entries, listed>>

\* `return any_error` after the loop.
TransferReturn ==
  /\ pc = "items" /\ xfer.i > Len(items)
  /\ Return(xfer.any_error)
  /\ UNCHANGED <<profile, more, config, port, sess, script, reboot, logs, files, capture>>

TransferNext == TransferBegin \/ TransferItem \/ TransferReturn

SpecTransfer == TransferInit /\ [][TransferNext]_vars

\* _ensure_remote_dir called repeatedly on one path of a remote host.
EnsureInit ==
  /\ op = "ensure" /\ pc = "ensure"
  /\ cfgPort = DefaultPort /\ hasPassword = FALSE /\ user = "root"
  /\ waitSeconds = 0 /\ nScripts = 0 /\ forceTty = FALSE /\ idx = 0
  /\ faults = FALSE
  /\ InitCommon /\ NoMore /\ NoCapture /\ NoConfig
  /\ items = <<>> /\ kinds = <<>> /\ entries = <<>>
  /\ xfer = [dest |-> <<>>, i |-> 1, any_error |-> 0, reported |-> {}, copied |-> {}]
  /\ listed = NoListing
  /\ dirs \in {fs \in SUBSET (Paths \ {<<>>}) : PrefixClosed(fs)}
  /\ \E path \in Paths : ensure = [path |-> path, calls |-> 0, mkdirs |-> <<>>, made |-> <<>>]

EnsureCall ==
  /\ pc = "ensure" /\ ensure.calls < MaxEnsureCalls
  /\ LET e == ensure_remote_dir(dirs, ensure.path, 1, <<>>)
     IN  /\ dirs' = e.dirs
         /\ ensure' = [ensure EXCEPT !.calls = @ + 1, !.mkdirs = e.mkdirs,
                                   !.made = @ \o e.mkdirs]
         /\ IF e.exc = "none" THEN UNCHANGED ctl ELSE Raise
  /\ UNCHANGED <<profile, more, config, port, sess, script, reboot, logs, capture,
                 items, kinds, xfer, entries, listed>>

EnsureNext == EnsureCall

SpecEnsureDir == EnsureInit /\ [][EnsureNext]_vars

(***************************************************************************)
(* Remote listing                                                          *)
(***************************************************************************)
\* str.lower() of a one-letter name.
lower(c) == IF c \in 65..90 THEN c + 32 ELSE c

\* _is_dir(attrs): stat.S_ISDIR(attrs.st_mode).
is_dir(ent) == ent.mode = "dir"

\* Mutant: the entries are sorted by their names as they are.
sort_key_CaseSensitive(ent) == ent.filename

\* key=lambda a: a.filename.lower()
sort_key(ent) == lower(ent.filename)

\* sorted(entries, key=...): stable, ascending.  The last element is inserted
\* into the sorted rest behind every element whose key is not greater.
RECURSIVE sorted(_)
sorted(es) ==
  IF es = <<>> THEN <<>>
  ELSE LET rest == sorted(SubSeq(es, 1, Len(es) - 1))
           e    == es[Len(es)]
           n    == Cardinality({i \in 1..Len(rest) : sort_key(rest[i]) <= sort_key(e)})
       IN  SubSeq(rest, 1, n) \o <<e>> \o SubSeq(rest, n + 1, Len(rest))

\* The line printed for one entry: kind tag and name (the size is not modelled).
list_line(ent) == [kind |-> IF is_dir(ent) THEN "d" ELSE "-", name |-> ent.filename]

\* The outputs of the remote `ls -al` that the fallback may receive.
ShellOuts == {"", "total 0\n", "b\nA\n"}

\* The name printed for a file target: posixpath.basename(target).
TargetName == 116

\* _list_remote_shell: cli.run of `ls -al`; a non-zero exit status is an error
\* and returns 1, otherwise out is written to stdout as received and 0 returned.
list_remote_shell(shellCode, out) ==
  IF shellCode # 0
  THEN [rc |-> 1, lines |-> <<>>, via |-> "shell", written |-> ""]
  ELSE [rc |-> 0, lines |-> <<>>, via |-> "shell", written |-> out]

\* Mutant: a target that sftp.stat does not find is listed by the shell too.
sftp_list_directory_FallbackOnMissing(sftpOk, target, listOk, shellCode, out, es) ==
  IF ~sftpOk \/ target = "missing" \/ (target = "dir" /\ ~listOk)
  THEN list_remote_shell(shellCode, out)
  ELSE IF target = "file"
       THEN [rc |-> 0, lines |-> <<[kind |-> "-", name |-> TargetName]>>,
             via |-> "file", written |-> ""]
       ELSE [rc |-> 0, lines |-> [i \in 1..Len(es) |-> list_line(sorted(es)[i])],
             via |-> "sftp", written |-> ""]

\* sftp_list_directory.  sftpOk: cli.sftp() succeeds; target: what sftp.stat
\* finds at the path; listOk: listdir_attr succeeds; shellCode, out: exit
\* status and output of the fallback `ls -al`.  Result: return code, entry
\* lines printed, the path taken, and the text written to stdout unformatted.
sftp_list_directory(sftpOk, target, listOk, shellCode, out, es) ==
  IF ~sftpOk THEN list_remote_shell(shellCode, out)
  ELSE IF target = "missing"
       THEN [rc |-> 1, lines |-> <<>>, via |-> "none", written |-> ""]
  ELSE IF target = "file"
       THEN [rc |-> 0, lines |-> <<[kind |-> "-", name |-> TargetName]>>,
             via |-> "file", written |-> ""]
  ELSE IF ~listOk THEN list_remote_shell(shellCode, out)
  ELSE [rc |-> 0, lines |-> [i \in 1..Len(es) |-> list_line(sorted(es)[i])],
        via |-> "sftp", written |-> ""]

EntryLists ==
  {es \in UNION {[1..n -> [filename : FileNames, mode : EntryModes]] : n \in 0..MaxEntries} :
     \A i, j \in 1..Len(es) : i # j => es[i].filename # es[j].filename}

\* sftp_list_directory called on a connected session; entries is the content
\* of the directory, in the order the server returns it.
ListInit ==
  /\ op = "ls-remote" /\ pc = "list"
  /\ cfgPort = DefaultPort /\ hasPassword = FALSE /\ user = "root"
  /\ waitSeconds = 0 /\ nScripts = 0 /\ forceTty = FALSE /\ idx = 0
  /\ faults = FALSE
  /\ InitCommon /\ NoMore /\ NoCapture /\ NoConfig
  /\ items = <<>> /\ kinds = <<>> /\ dirs = {}
  /\ xfer = [dest |-> <<>>, i |-> 1, any_error |-> 0, reported |-> {}, copied |-> {}]
  /\ ensure = [path |-> <<>>, calls |-> 0, mkdirs |-> <<>>, made |-> <<>>]
  /\ entries \in EntryLists
  /\ listed = NoListing

ListDirectory ==
  /\ pc = "list"
  /\ \E sftpOk, listOk \in BOOLEAN, target \in PathKinds, shellCode \in {0, 1},
        out \in ShellOuts :
       LET r == sftp_list_directory(sftpOk, target, listOk, shellCode, out, entries)
       IN  /\ listed' = [rc |-> r.rc, lines |-> r.lines, via |-> r.via,
                         written |-> r.written,
                         call |-> [sftpOk |-> sftpOk, target |-> target,
                                   listOk |-> listOk, shellCode |-> shellCode,
                                   out |-> out]]
           /\ Return(r.rc)
  /\ UNCHANGED <<profile, more, config, port, sess, script, reboot, logs, capture,
                 items, kinds, xfer, dirs, ensure, entries>>

ListNext == ListDirectory

SpecList == ListInit /\ [][ListNext]_vars

(***************************************************************************)
(* Capture-only execution: the read loop of execute_remote_script when     *)
(* force_tty is off.  A chunk is what one recv(32768) returns; every chunk *)
(* holds at least one line.  The remote command writes its chunks, then    *)
(* exits; the exit status reaches the client after the data.               *)
(***************************************************************************)
\* `data = chan.recv(32768)` / `chan.recv_stderr(32768)` and the loop over
\* text.splitlines(): print(line), then log_remote(alias, remote_path.name,
\* line), whose argument remote_path.name raises AttributeError because
\* remote_path is a str.
read_chunk(c, stream) ==
  [c EXCEPT ![stream] = @ - 1, !.read = @ + 1, !.exc = "AttributeError"]

CaptureInit ==
  /\ op = "run-script" /\ pc = "recv"
  /\ cfgPort = DefaultPort /\ hasPassword = FALSE /\ user = "root"
  /\ waitSeconds = 0 /\ nScripts = 1 /\ forceTty = FALSE /\ idx = 1
  /\ faults = FALSE
  /\ InitCommon /\ NoMore /\ NoFiles /\ NoConfig
  /\ \E o, e \in 0..MaxChunks, rc \in ExitCodes :
       chan = [out |-> 0, err |-> 0, exit |-> FALSE, toOut |-> o, toErr |-> e,
               read |-> 0, rc |-> rc, exc |-> "none"]
  /\ pty = [printed |-> <<>>, logged |-> <<>>, intr |-> FALSE]

\* The remote command writes a chunk to stdout and it reaches the client.
StdoutArrives ==
  /\ pc # "done" /\ chan.toOut > 0
  /\ chan' = [chan EXCEPT !.toOut = @ - 1, !.out = @ + 1]
  /\ UNCHANGED <<profile, more, config, ctl, port, sess, script, reboot, logs, files, pty>>

StderrArrives ==
  /\ pc # "done" /\ chan.toErr > 0
  /\ chan' = [chan EXCEPT !.toErr = @ - 1, !.err = @ + 1]
  /\ UNCHANGED <<profile, more, config, ctl, port, sess, script, reboot, logs, files, pty>>

\* The remote command has written everything and exits.
ExitArrives ==
  /\ pc # "done" /\ ~chan.exit /\ chan.toOut = 0 /\ chan.toErr = 0
  /\ chan' = [chan EXCEPT !.exit = TRUE]
  /\ UNCHANGED <<profile, more, config, ctl, port, sess, script, reboot, logs, files, pty>>

\* `if chan.recv_ready(): ...`
CaptureStdout ==
  /\ pc = "recv"
  /\ IF chan.out > 0
       THEN LET c == read_chunk(chan, "out")
            IN  /\ chan' = c
                /\ Goto(IF c.exc = "none" THEN "recv_stderr" ELSE "finally")
       ELSE Goto("recv_stderr") /\ UNCHANGED chan
  /\ UNCHANGED <<profile, more, config, port, sess, script, reboot, logs, files, pty>>

\* `if chan.recv_stderr_ready(): ...`
CaptureStderr ==
  /\ pc = "recv_stderr"
  /\ IF chan.err > 0
       THEN LET c == read_chunk(chan, "err")
            IN  /\ chan' = c
                /\ Goto(IF c.exc = "none" THEN "exit_status" ELSE "finally")
       ELSE Goto("exit_status") /\ UNCHANGED chan
  /\ UNCHANGED <<profile, more, config, port, sess, script, reboot, logs, files, pty>>

\* `if chan.exit_status_ready(): break`, else sleep and loop.
CaptureExitCheck ==
  /\ pc = "exit_status"
  /\ Goto(IF chan.exit THEN "finally" ELSE "recv")
  /\ UNCHANGED <<profile, more, config, port, sess, script, reboot, logs, files, capture>>

\* finally: rc = chan.recv_exit_status() (waits for the exit status);
\* chan.close(); then `return rc`, or the exception of the loop goes on.
CaptureFinally ==
  /\ pc = "finally" /\ ~forceTty /\ chan.exit
  /\ IF chan.exc = "none" THEN Return(chan.rc) ELSE Raise
  /\ UNCHANGED <<profile, more, config, port, sess, script, reboot, logs, files, capture>>

CaptureNext ==
  \/ StdoutArrives \/ StderrArrives \/ ExitArrives
  \/ CaptureStdout \/ CaptureStderr \/ CaptureExitCheck \/ CaptureFinally

SpecCapture == CaptureInit /\ [][CaptureNext]_vars

\* The client keeps running: each step of the loop that is enabled is
\* eventually taken.  Nothing obliges the remote side to write or to exit.
CaptureProgram ==
  CaptureStdout \/ CaptureStderr \/ CaptureExitCheck \/ CaptureFinally

SpecCaptureLive == CaptureInit /\ [][CaptureNext]_vars /\ WF_vars(CaptureProgram)

(***************************************************************************)
(* TTY execution on POSIX: the select loop of execute_remote_script when   *)
(* force_tty is on.  Lines are numbered in the order they are printed.     *)
(***************************************************************************)
\* The n lines of the chunk being read.
NewLines(t, n) == [k \in 1..n |-> Len(t.printed) + k]

\* Streaming loop, one chunk of n lines:
\*     for line in text.splitlines():
\*         print(line)
\*     log_remote(alias, basename(remote_path), line)
\* log_remote is called once, after the loop, with the last line.
tty_read(t, n) ==
  [t EXCEPT !.printed = @ \o NewLines(t, n),
            !.logged  = @ \o <<Len(t.printed) + n>>]

\* Drain after exit_status_ready, n lines in all: print(line) and log_remote
\* are both inside the loop over the lines.
tty_drain(t, n) ==
  [t EXCEPT !.printed = @ \o NewLines(t, n), !.logged = @ \o NewLines(t, n)]

TtyInit ==
  /\ op = "run-script" /\ pc = "select"
  /\ cfgPort = DefaultPort /\ hasPassword = FALSE /\ user = "root"
  /\ waitSeconds = 0 /\ nScripts = 1 /\ forceTty = TRUE /\ idx = 1
  /\ faults = FALSE
  /\ InitCommon /\ NoMore /\ NoFiles /\ NoConfig
  /\ \E o, e \in 0..MaxChunks, rc \in ExitCodes :
       chan = [out |-> 0, err |-> 0, exit |-> FALSE, toOut |-> o, toErr |-> e,
               read |-> 0, rc |-> rc, exc |-> "none"]
  /\ pty = [printed |-> <<>>, logged |-> <<>>, intr |-> FALSE]

\* One iteration of `while True: rlist = select([chan, sys.stdin])`: select
\* returns when the channel has data or was closed or a key was typed; then
\* one stdout chunk and one stderr chunk are read if ready, typed bytes are
\* sent (a failing send leaves the loop), and when the exit status is ready
\* the rest of both streams is drained and the loop is left.
TtyIteration ==
  /\ pc = "select"
  /\ \E typed, sendFails \in BOOLEAN, n1, n2 \in 1..MaxLines :
       LET gotOut == chan.out > 0
           gotErr == chan.err > 0
           t1 == IF gotOut THEN tty_read(pty, n1) ELSE pty
           t2 == IF gotErr THEN tty_read(t1, n2) ELSE t1
           c2 == [chan EXCEPT !.out = IF gotOut THEN @ - 1 ELSE @,
                              !.err = IF gotErr THEN @ - 1 ELSE @,
                              !.read = @ + (IF gotOut THEN 1 ELSE 0)
                                         + (IF gotErr THEN 1 ELSE 0)]
           left == c2.out + c2.err
       IN  /\ gotOut \/ gotErr \/ chan.exit \/ typed
           /\ sendFails => typed
           /\ IF typed /\ sendFails
                THEN chan' = c2 /\ pty' = t2 /\ Goto("finally")
                ELSE IF chan.exit
                  THEN /\ chan' = [c2 EXCEPT !.out = 0, !.err = 0, !.read = @ + left]
                       /\ \E m \in left..(left * MaxLines) : pty' = tty_drain(t2, m)
                       /\ Goto("finally")
                  ELSE chan' = c2 /\ pty' = t2 /\ Goto("select")
  /\ UNCHANGED <<profile, more, config, port, sess, script, reboot, logs, files>>

\* Ctrl-C while the loop runs: KeyboardInterrupt leaves the try block.
TtyInterrupt ==
  /\ pc = "select" /\ ~pty.intr
  /\ pty' = [pty EXCEPT !.intr = TRUE]
  /\ Goto("finally")
  /\ UNCHANGED <<profile, more, config, port, sess, script, reboot, logs, files, chan>>

\* finally: rc = chan.recv_exit_status() (waits until the remote command has
\* exited); chan.close(); return rc -- the return inside finally discards a
\* pending exception, KeyboardInterrupt included.
TtyFinally ==
  /\ pc = "finally" /\ forceTty /\ chan.exit
  /\ Return(chan.rc)
  /\ UNCHANGED <<profile, more, config, port, sess, script, reboot, logs, files, capture>>

TtyNext ==
  \/ StdoutArrives \/ StderrArrives \/ ExitArrives
  \/ TtyIteration \/ TtyInterrupt \/ TtyFinally

SpecTty == TtyInit /\ [][TtyNext]_vars

(***************************************************************************)
(* Configuration: the port of a host block.  A value is the sequence of    *)
(* its characters, already stripped.                                       *)
(***************************************************************************)
DigitVal  == [c \in {DigitChars[i] : i \in 1..10} |->
                CHOOSE d \in 0..9 : DigitChars[d + 1] = c]
PortChars == {"0", "7", "9", "-", "x"}
PortTexts == UNION {[1..n -> PortChars] : n \in 0..MaxPortLen}

\* Value of a sequence of decimal digits.
RECURSIVE digits_value(_)
digits_value(ds) ==
  IF ds = <<>> THEN 0
  ELSE 10 * digits_value(SubSeq(ds, 1, Len(ds) - 1)) + DigitVal[ds[Len(ds)]]

\* int(port_s): an optional sign and at least one digit, anything else is
\* ValueError.
int(t) ==
  LET neg == t # <<>> /\ t[1] = "-"
      ds  == IF neg THEN Tail(t) ELSE t
  IN  IF ds = <<>> \/ \E i \in 1..Len(ds) : ds[i] \notin DOMAIN DigitVal
        THEN [ok |-> FALSE, val |-> 0]
        ELSE [ok |-> TRUE, val |-> IF neg THEN 0 - digits_value(ds) ELSE digits_value(ds)]

\* flush_server: port_s = acc.get("port", "22").strip();
\* try: port = int(port_s) except ValueError: port = 22
flush_server_port(given, text) ==
  IF ~given THEN DefaultPort
  ELSE IF int(text).ok THEN int(text).val ELSE DefaultPort

\* A host block with host and user, with or without a port key.
ConfInit ==
  /\ op = "parse_conf" /\ pc = "flush"
  /\ cfgPort = DefaultPort /\ hasPassword = FALSE /\ user = "root"
  /\ waitSeconds = 0 /\ nScripts = 0 /\ forceTty = FALSE /\ idx = 0
  /\ faults = FALSE
  /\ InitCommon /\ NoMore /\ NoFiles /\ NoCapture /\ NoTrust /\ NoArgs /\ NoAbs
  /\ \E given \in BOOLEAN, text \in PortTexts :
       /\ ~given => text = <<>>
       /\ conf = [given |-> given, text |-> text, parsed |-> FALSE, port |-> 0]

\* flush_server makes the profile of the block.
FlushServer ==
  /\ pc = "flush" /\ ~conf.parsed
  /\ conf' = [conf EXCEPT !.parsed = TRUE, !.port = flush_server_port(conf.given, conf.text)]
  /\ UNCHANGED <<profile, more, ctl, port, sess, script, reboot, logs, files, capture, trust, args, absp>>

ConfNext == FlushServer

SpecConf == ConfInit /\ [][ConfNext]_vars

(***************************************************************************)
(* Host key verification in connect().  The host has at most one entry in  *)
(* the user's known-hosts file; keys are numbered, 0 stands for no key.    *)
(* A library client holds the entries it loaded (system, own) and the name *)
(* of the file it saves to.                                                *)
(***************************************************************************)
HostKeys == {1, 2}

\* paramiko.SSHClient(): nothing loaded, no file name.
paramiko_SSHClient == [system |-> 0, own |-> 0, filename |-> FALSE]

\* The library client's check of the server key during c.connect: the entry
\* it looked up is the loaded system entry, else its own entry; with no entry
\* the missing-host-key policy decides (AutoAddPolicy: add to the own entries,
\* save when a file name is set, accept); an entry that differs from the
\* server key raises BadHostKeyException.
check_host_key(c, key) ==
  LET our == IF c.system # 0 THEN c.system ELSE c.own
  IN  IF our = 0
        THEN [verdict |-> "accepted", stored |-> key, saved |-> c.filename]
        ELSE IF our # key
          THEN [verdict |-> "rejected", stored |-> c.own, saved |-> FALSE]
          ELSE [verdict |-> "accepted", stored |-> c.own, saved |-> FALSE]

\* SSHClient.connect up to the first c.connect: c = paramiko.SSHClient();
\* c.set_missing_host_key_policy(AutoAddPolicy()).  No known-hosts file is
\* loaded into c, whatever the user's file holds.
connect_client(known) == paramiko_SSHClient

HostKeyInit ==
  /\ op = "connect" /\ pc = "connect"
  /\ cfgPort \in Ports
  /\ hasPassword \in BOOLEAN
  /\ user = "root"
  /\ waitSeconds = 0 /\ nScripts = 0 /\ forceTty = FALSE /\ idx = 0
  /\ faults = FALSE
  /\ InitCommon /\ NoMore /\ NoFiles /\ NoCapture /\ NoConf /\ NoArgs /\ NoAbs
  /\ \E known \in {0} \cup HostKeys :
       trust = [known |-> known, presented |-> 0, verdict |-> "none",
                stored |-> 0, saved |-> FALSE]

\* connect() against a server that presents `key`: a rejected key ends the
\* first c.connect with an exception before any authentication; otherwise
\* connect() proceeds as SSHClient_connect.
HostKeyConnect ==
  /\ pc = "connect" /\ trust.presented = 0
  /\ \E key \in HostKeys, keyExists \in BOOLEAN, out1, out2 \in ConnOutcomes :
       LET v == check_host_key(connect_client(trust.known), key)
           r == SSHClient_connect(SSHClient_init(cli), hasPassword, keyExists, out1, out2)
       IN  /\ trust' = [trust EXCEPT !.presented = key, !.verdict = v.verdict,
                                     !.stored = v.stored, !.saved = v.saved]
           /\ IF v.verdict = "rejected"
                THEN cli' = SSHClient_init(cli) /\ connExc' = "other"
                ELSE cli' = r.s /\ connExc' = r.exc
  /\ pc' = "done"
  /\ retKind' = IF connExc' = "none" THEN "returned" ELSE "raised"
  /\ UNCHANGED <<profile, more, conf, args, absp, files, capture, retVal, port, closeCalls,
                 closeRaised, script, reboot, logs>>

HostKeyNext == HostKeyConnect

SpecHostKey == HostKeyInit /\ [][HostKeyNext]_vars

(***************************************************************************)
(* Script arguments.  An argument list is a sequence of words.             *)
(***************************************************************************)
ArgWords == {"x", "y"}
ArgLists == UNION {[1..n -> ArgWords] : n \in 0..MaxArgs}

\* dict.get(name): the mapped list, or None (present = FALSE).
dict_get(mapped, map) == [present |-> mapped, val |-> IF mapped THEN map ELSE <<>>]

\* Python's `a or b` on an optional list: a when it is truthy (not None and
\* not empty), else b.
py_or(a, b) == IF a.present /\ Len(a.val) > 0 THEN a.val ELSE b

\* if script_args is not None and len(script_args) > 0: eff_args = script_args
\* else: eff_args = sc.script_args_map.get(script_name) or sc.default_script_args
eff_args(given, script_args, mapped, map, default) ==
  IF given /\ Len(script_args) > 0 THEN script_args
  ELSE py_or(dict_get(mapped, map), default)

ArgsInit ==
  /\ op \in ScriptOps /\ pc = "args"
  /\ cfgPort = DefaultPort /\ hasPassword = FALSE /\ user = "root"
  /\ waitSeconds = 0 /\ nScripts = 1 /\ forceTty = FALSE /\ idx = 1
  /\ faults = FALSE
  /\ InitCommon /\ NoMore /\ NoFiles /\ NoCapture /\ NoConf /\ NoTrust /\ NoAbs
  /\ \E cg, mp \in BOOLEAN, c, m, d \in ArgLists :
       /\ ~cg => c = <<>>
       /\ ~mp => m = <<>>
       /\ args = [cli_given |-> cg, cli |-> c, mapped |-> mp, map |-> m,
                  default |-> d, selected |-> FALSE, eff |-> <<>>]

\* The argument list of the script about to be executed is selected.
SelectArgs ==
  /\ pc = "args" /\ ~args.selected
  /\ args' = [args EXCEPT !.selected = TRUE,
                          !.eff = eff_args(args.cli_given, args.cli, args.mapped,
                                           args.map, args.default)]
  /\ UNCHANGED <<profile, more, ctl, port, sess, script, reboot, logs, files, capture, conf, trust, absp>>

ArgsNext == SelectArgs

SpecArgs == ArgsInit /\ [][ArgsNext]_vars

(***************************************************************************)
(* Remote path normalisation.  A path is the sequence of its characters.   *)
(***************************************************************************)
PathChars == {"/", "~", ".", "a"}
PathTexts == UNION {[1..n -> PathChars] : n \in 0..MaxPathLen}
HomeChars == {"/", ".", "h"}
Homes     == {<<"/">> \o t : t \in UNION {[1..n -> HomeChars] : n \in 0..(MaxHomeLen - 1)}}

\* s.startswith(c) for a one-character c.
startswith(s, c) == s # <<>> /\ s[1] = c

\* s.replace(c, r, 1): the first occurrence of the character c becomes r.
replace_first(s, c, r) ==
  IF \E i \in 1..Len(s) : s[i] = c
    THEN LET i == CHOOSE k \in 1..Len(s) : s[k] = c /\ \A j \in 1..(k - 1) : s[j] # c
         IN  SubSeq(s, 1, i - 1) \o r \o SubSeq(s, i + 1, Len(s))
    ELSE s

\* posixpath.join(a, b).
posixpath_join(a, b) ==
  IF startswith(b, "/") THEN b
  ELSE IF a = <<>> \/ a[Len(a)] = "/" THEN a \o b
  ELSE a \o <<"/">> \o b

\* s.split('/'): the pieces between the slashes, empty pieces included.
RECURSIVE split(_)
split(s) ==
  IF \E i \in 1..Len(s) : s[i] = "/"
    THEN LET i == CHOOSE k \in 1..Len(s) : s[k] = "/" /\ \A j \in 1..(k - 1) : s[j] # "/"
         IN  <<SubSeq(s, 1, i - 1)>> \o split(SubSeq(s, i + 1, Len(s)))
    ELSE <<s>>

\* "/".join(parts).
RECURSIVE join(_)
join(parts) ==
  IF parts = <<>> THEN <<>>
  ELSE IF Len(parts) = 1 THEN parts[1]
  ELSE parts[1] \o <<"/">> \o join(Tail(parts))

\* Mutant: a '..' piece is kept as a segment.
RECURSIVE collapse_KeepDotDot(_, _)
collapse_KeepDotDot(pieces, parts) ==
  IF pieces = <<>> THEN parts
  ELSE LET p == pieces[1]
       IN  IF p = <<>> \/ p = <<".">>
             THEN collapse_KeepDotDot(Tail(pieces), parts)
             ELSE collapse_KeepDotDot(Tail(pieces), Append(parts, p))

\* The loop `for p in rp.split('/')`: empty and '.' pieces are skipped, '..'
\* pops the last part when there is one, any other piece is appended.
RECURSIVE collapse(_, _)
collapse(pieces, parts) ==
  IF pieces = <<>> THEN parts
  ELSE LET p == pieces[1]
       IN  IF p = <<>> \/ p = <<".">>
             THEN collapse(Tail(pieces), parts)
           ELSE IF p = <<".", ".">>
             THEN collapse(Tail(pieces),
                           IF parts # <<>> THEN SubSeq(parts, 1, Len(parts) - 1) ELSE parts)
           ELSE collapse(Tail(pieces), Append(parts, p))

\* _sftp_abs(sftp, remote_path), with home = _sftp_home(sftp).
sftp_abs(home, remote_path) ==
  LET rp0 == IF remote_path = <<>> THEN <<".">> ELSE remote_path
      rp1 == IF startswith(rp0, "~") THEN replace_first(rp0, "~", home) ELSE rp0
      rp2 == IF ~startswith(rp1, "/") THEN posixpath_join(home, rp1) ELSE rp1
  IN  <<"/">> \o join(collapse(split(rp2), <<>>))

AbsInit ==
  /\ op = "ls-remote" /\ pc = "abs"
  /\ cfgPort = DefaultPort /\ hasPassword = FALSE /\ user = "root"
  /\ waitSeconds = 0 /\ nScripts = 0 /\ forceTty = FALSE /\ idx = 0
  /\ faults = FALSE
  /\ InitCommon /\ NoMore /\ NoFiles /\ NoCapture /\ NoConf /\ NoTrust /\ NoArgs
  /\ \E home \in Homes, path \in PathTexts :
       absp = [home |-> home, path |-> path, calls |-> 0, out |-> <<>>, again |-> <<>>]

\* _sftp_abs is applied to the remote path.
AbsCall ==
  /\ pc = "abs" /\ absp.calls = 0
  /\ absp' = [absp EXCEPT !.calls = 1, !.out = sftp_abs(absp.home, absp.path)]
  /\ UNCHANGED <<profile, more, ctl, port, sess, script, reboot, logs, files, capture, conf, trust, args>>

\* _sftp_abs is applied to its own result (a later call on a path it returned).
AbsAgain ==
  /\ pc = "abs" /\ absp.calls = 1
  /\ absp' = [absp EXCEPT !.calls = 2, !.again = sftp_abs(absp.home, absp.out)]
  /\ UNCHANGED <<profile, more, ctl, port, sess, script, reboot, logs, files, capture, conf, trust, args>>

AbsNext == AbsCall \/ AbsAgain

SpecAbs == AbsInit /\ [][AbsNext]_vars

(***************************************************************************)
(* Download of a directory.  A tree is the set of its entries, each with   *)
(* its path below the requested directory (a sequence of names) and its    *)
(* kind; the parent of every entry is a directory of the tree.             *)
(***************************************************************************)
TreeNames == {"a", "b"}

RECURSIVE Trees(_)
Trees(depth) ==
  IF depth = 0 THEN {{}}
  ELSE LET Under(n, t) == {[path |-> <<n>> \o e.path, kind |-> e.kind] : e \in t}
           Options(n) ==
             {{}, {[path |-> <<n>>, kind |-> "f"]}}
               \cup {{[path |-> <<n>>, kind |-> "d"]} \cup Under(n, t) : t \in Trees(depth - 1)}
       IN  {o1 \cup o2 : o1 \in Options("a"), o2 \in Options("b")}

\* sftp.listdir_attr(dir): the entries directly inside dir.
listdir_attr(tree, dir) ==
  {e \in tree : Len(e.path) = Len(dir) + 1 /\ SubSeq(e.path, 1, Len(dir)) = dir}

\* Mutant: every file is placed directly in the local copy of the requested
\* directory.
RECURSIVE walk_dir_Flat(_, _, _, _)
walk_dir_Flat(tree, remote_dir, local_dir, recursive) ==
  LET visit(ent) ==
        IF ent.kind = "d"
          THEN IF recursive
                 THEN walk_dir_Flat(tree, ent.path, local_dir, recursive)
                 ELSE [copied |-> {}, skipped |-> {ent.path}]
          ELSE [copied |-> {[remote |-> ent.path,
                             local |-> local_dir \o <<ent.path[Len(ent.path)]>>]},
                skipped |-> {}]
      ents == listdir_attr(tree, remote_dir)
  IN  [copied  |-> UNION {visit(ent).copied : ent \in ents},
       skipped |-> UNION {visit(ent).skipped : ent \in ents}]

\* download_items._walk_dir(remote_dir_abs, local_dir): each entry of the
\* listing is a directory (walked into local_dir / name when recursive, else
\* skipped with a message) or a file (fetched into local_dir under its
\* basename).
RECURSIVE walk_dir(_, _, _, _)
walk_dir(tree, remote_dir, local_dir, recursive) ==
  LET visit(ent) ==
        IF ent.kind = "d"
          THEN IF recursive
                 THEN walk_dir(tree, ent.path,
                               local_dir \o <<ent.path[Len(ent.path)]>>, recursive)
                 ELSE [copied |-> {}, skipped |-> {ent.path}]
          ELSE [copied |-> {[remote |-> ent.path,
                             local |-> local_dir \o <<ent.path[Len(ent.path)]>>]},
                skipped |-> {}]
      ents == listdir_attr(tree, remote_dir)
  IN  [copied  |-> UNION {visit(ent).copied : ent \in ents},
       skipped |-> UNION {visit(ent).skipped : ent \in ents}]

MirrorInit ==
  /\ op \in {"download", "cp"} /\ pc = "walk"
  /\ cfgPort = DefaultPort /\ hasPassword = FALSE /\ user = "root"
  /\ waitSeconds = 0 /\ nScripts = 0 /\ forceTty = FALSE /\ idx = 0
  /\ faults = FALSE
  /\ InitCommon /\ NoFiles /\ NoCapture /\ NoConfig /\ NoUp /\ NoFeed /\ NoThr /\ NoTerm
  /\ \E tree \in Trees(MaxTreeDepth), recursive \in BOOLEAN :
       mirror = [tree |-> tree, recursive |-> recursive, walked |-> FALSE,
                 copied |-> {}, skipped |-> {}]

\* download_items on one remote path that is a directory:
\* _walk_dir(rp_abs, local_dest / basename(rp_abs)); any_error stays 0.
MirrorWalk ==
  /\ pc = "walk" /\ ~mirror.walked
  /\ LET w == walk_dir(mirror.tree, <<>>, <<>>, mirror.recursive)
     IN  mirror' = [mirror EXCEPT !.walked = TRUE, !.copied = w.copied,
                                  !.skipped = w.skipped]
  /\ Return(0)
  /\ UNCHANGED <<profile, config, port, sess, script, reboot, logs, files, capture, up, feed, thr, term>>

MirrorNext == MirrorWalk

SpecMirror == MirrorInit /\ [][MirrorNext]_vars

(***************************************************************************)
(* upload_script step by step: the SFTP attempt, then the streaming        *)
(* fallback.  trace lists the library calls in the order they are made.    *)
(***************************************************************************)
UploadPlans ==
  [open : BOOLEAN, stat : BOOLEAN, mkdir : BOOLEAN, put : BOOLEAN, sink : SinkOutcomes]

\* The try block: cli.sftp(); sftp.stat(remote_dir), on IOError
\* sftp.mkdir(remote_dir); sftp.put(...).  The calls made and whether one of
\* them raised.
sftp_attempt(plan) ==
  IF ~plan.open THEN [calls |-> <<"sftp_open">>, raised |-> TRUE]
  ELSE IF ~plan.stat /\ ~plan.mkdir
    THEN [calls |-> <<"sftp_open", "sftp_stat", "sftp_mkdir">>, raised |-> TRUE]
  ELSE LET pre == IF plan.stat THEN <<"sftp_open", "sftp_stat">>
                               ELSE <<"sftp_open", "sftp_stat", "sftp_mkdir">>
       IN  [calls |-> Append(pre, "sftp_put"), raised |-> ~plan.put]

\* Mutant: the streaming upload follows the SFTP attempt in every case.
after_sftp_AlwaysStream(raised) == "stream"

\* `return remote_path` inside the try block, or `except Exception:` (a
\* warning) and on to the fallback.
after_sftp(raised) == IF raised THEN "stream" ELSE "done"

\* The fallback: open_session, exec_command of `mkdir -p ... && cat > path`,
\* sendall of the chunks, shutdown_write, recv_exit_status.
stream_attempt(sink) ==
  IF sink = "chanfail" THEN <<"open_session">>
  ELSE <<"open_session", "exec_command", "sendall", "recv_exit_status">>

UploadInit ==
  /\ op \in ScriptOps /\ pc = "sftp"
  /\ cfgPort = DefaultPort /\ hasPassword = FALSE /\ user = "root"
  /\ waitSeconds = 0 /\ nScripts = 1 /\ forceTty = FALSE /\ idx = 1
  /\ faults = TRUE
  /\ InitCommon /\ NoFiles /\ NoCapture /\ NoConfig /\ NoMirror /\ NoFeed /\ NoThr /\ NoTerm
  /\ \E plan \in UploadPlans : up = [plan |-> plan, trace |-> <<>>, artifact |-> "none"]

\* The SFTP attempt.
UploadSftp ==
  /\ pc = "sftp"
  /\ LET a == sftp_attempt(up.plan)
     IN  /\ up' = [up EXCEPT !.trace = @ \o a.calls,
                             !.artifact = IF a.raised THEN "none" ELSE "full"]
         /\ IF after_sftp(a.raised) = "done"
              THEN pc' = "done" /\ retKind' = "returned"
              ELSE pc' = "stream" /\ UNCHANGED retKind
  /\ UNCHANGED <<profile, config, retVal, port, sess, script, reboot, logs, files,
                 capture, mirror, feed, thr, term>>

\* The streaming fallback.
UploadStream ==
  /\ pc = "stream"
  /\ LET u == upload_script(IF up.artifact = "full" THEN "ok" ELSE "unavailable",
                            up.plan.sink)
     IN  /\ up' = [up EXCEPT !.trace = @ \o stream_attempt(up.plan.sink),
                             !.artifact = u.artifact]
         /\ pc' = "done"
         /\ retKind' = IF u.raised THEN "raised" ELSE "returned"
  /\ UNCHANGED <<profile, config, retVal, port, sess, script, reboot, logs, files,
                 capture, mirror, feed, thr, term>>

UploadNext == UploadSftp \/ UploadStream

SpecUpload == UploadInit /\ [][UploadNext]_vars

(***************************************************************************)
(* Splitting a stream into lines.  A stream is the sequence of its bytes;  *)
(* chan.recv returns any non-empty prefix of the bytes not yet received.   *)
(***************************************************************************)
StreamBytes == {"x", "y", "\n"}
Streams     == UNION {[1..n -> StreamBytes] : n \in 0..MaxStreamLen}

\* text.splitlines(): the pieces between line ends; a line end at the very end
\* yields no empty last piece.
RECURSIVE splitlines(_)
splitlines(text) ==
  IF text = <<>> THEN <<>>
  ELSE IF \E i \in 1..Len(text) : text[i] = "\n"
    THEN LET i == CHOOSE k \in 1..Len(text) :
                    text[k] = "\n" /\ \A j \in 1..(k - 1) : text[j] # "\n"
         IN  <<SubSeq(text, 1, i - 1)>> \o splitlines(SubSeq(text, i + 1, Len(text)))
    ELSE <<text>>

FeedInit ==
  /\ op \in ScriptOps /\ pc = "select"
  /\ cfgPort = DefaultPort /\ hasPassword = FALSE /\ user = "root"
  /\ waitSeconds = 0 /\ nScripts = 1 /\ forceTty = TRUE /\ idx = 1
  /\ faults = FALSE
  /\ InitCommon /\ NoFiles /\ NoCapture /\ NoConfig /\ NoMirror /\ NoUp /\ NoThr /\ NoTerm
  /\ \E stream \in Streams :
       feed = [stream |-> stream, rest |-> stream, emitted |-> <<>>, chunks |-> 0]

\* One pass of the loop with data on the stream: data = chan.recv(32768);
\* text = data.decode(); for line in text.splitlines(): print(line).
FeedChunk ==
  /\ pc = "select" /\ feed.rest # <<>>
  /\ \E k \in 1..Len(feed.rest) :
       feed' = [feed EXCEPT !.rest = SubSeq(@, k + 1, Len(@)),
                            !.emitted = @ \o splitlines(SubSeq(feed.rest, 1, k)),
                            !.chunks = @ + 1]
  /\ UNCHANGED <<profile, config, ctl, port, sess, script, reboot, logs, files,
                 capture, mirror, up, thr, term>>

\* The stream is at its end and the exit status is ready: the loop is left and
\* the finally clause returns the exit status.
FeedEnd ==
  /\ pc = "select" /\ feed.rest = <<>>
  /\ Return(0)
  /\ UNCHANGED <<profile, config, port, sess, script, reboot, logs, files,
                 capture, mirror, up, feed, thr, term>>

FeedNext == FeedChunk \/ FeedEnd

SpecFeed == FeedInit /\ [][FeedNext]_vars

(***************************************************************************)
(* TTY execution with a reader thread (os.name == 'nt').  The reader       *)
(* thread and the main thread take their steps in any order; the remote    *)
(* command writes its chunks, then exits, and the exit status reaches the  *)
(* client after the data.                                                  *)
(***************************************************************************)
\* The reader's `data = chan.recv(32768)` and the loop over the lines:
\* print(line); log_remote(alias, basename(remote_path), line).
reader_chunk(c, stream) == [c EXCEPT ![stream] = @ - 1, !.read = @ + 1]

\* The reader's `if chan.exit_status_ready(): break`, else sleep and go round.
reader_after_exit_check(exit_ready) == IF exit_ready THEN "ended" ELSE "while"

ThreadInit ==
  /\ op = "run-script" /\ pc = "kbhit"
  /\ cfgPort = DefaultPort /\ hasPassword = FALSE /\ user = "root"
  /\ waitSeconds = 0 /\ nScripts = 1 /\ forceTty = TRUE /\ idx = 1
  /\ faults = FALSE
  /\ InitCommon /\ NoFiles /\ NoConfig /\ NoMirror /\ NoUp /\ NoFeed /\ NoTerm
  /\ \E o, e \in 0..MaxChunks, rc \in ExitCodes :
       chan = [out |-> 0, err |-> 0, exit |-> FALSE, toOut |-> o, toErr |-> e,
               read |-> 0, rc |-> rc, exc |-> "none"]
  /\ pty = [printed |-> <<>>, logged |-> <<>>, intr |-> FALSE]
  /\ thr = [started |-> TRUE, reader |-> "while", stop |-> FALSE]

\* reader: `while not stop`.
ReaderWhile ==
  /\ thr.reader = "while"
  /\ thr' = [thr EXCEPT !.reader = IF thr.stop THEN "ended" ELSE "recv"]
  /\ UNCHANGED <<profile, config, ctl, port, sess, script, reboot, logs, files,
                 capture, mirror, up, feed, term>>

\* reader: `if chan.recv_ready(): ...`.
ReaderStdout ==
  /\ thr.reader = "recv"
  /\ chan' = IF chan.out > 0 THEN reader_chunk(chan, "out") ELSE chan
  /\ thr' = [thr EXCEPT !.reader = "recv_stderr"]
  /\ UNCHANGED <<profile, config, ctl, port, sess, script, reboot, logs, files,
                 pty, mirror, up, feed, term>>

\* reader: `if chan.recv_stderr_ready(): ...`.
ReaderStderr ==
  /\ thr.reader = "recv_stderr"
  /\ chan' = IF chan.err > 0 THEN reader_chunk(chan, "err") ELSE chan
  /\ thr' = [thr EXCEPT !.reader = "exit_status"]
  /\ UNCHANGED <<profile, config, ctl, port, sess, script, reboot, logs, files,
                 pty, mirror, up, feed, term>>

\* reader: `if chan.exit_status_ready(): break`; time.sleep(0.01).
ReaderExitCheck ==
  /\ thr.reader = "exit_status"
  /\ thr' = [thr EXCEPT !.reader = reader_after_exit_check(chan.exit)]
  /\ UNCHANGED <<profile, config, ctl, port, sess, script, reboot, logs, files,
                 capture, mirror, up, feed, term>>

\* main: `if msvcrt.kbhit(): ... chan.send(...)`: a key, when there is one, is
\* sent to the remote command.
MainKeys ==
  /\ pc = "kbhit"
  /\ Goto("main_exit")
  /\ UNCHANGED <<profile, config, port, sess, script, reboot, logs, files,
                 capture, mirror, up, feed, thr, term>>

\* main: `if chan.exit_status_ready(): break`; time.sleep(0.01).
MainExitCheck ==
  /\ pc = "main_exit"
  /\ Goto(IF chan.exit THEN "stop" ELSE "kbhit")
  /\ UNCHANGED <<profile, config, port, sess, script, reboot, logs, files,
                 capture, mirror, up, feed, thr, term>>

\* main: KeyboardInterrupt inside the loop; `except KeyboardInterrupt: pass`.
MainInterrupt ==
  /\ pc \in {"kbhit", "main_exit"}
  /\ pty' = [pty EXCEPT !.intr = TRUE]
  /\ Goto("stop")
  /\ UNCHANGED <<profile, config, port, sess, script, reboot, logs, files,
                 chan, mirror, up, feed, thr, term>>

\* main, finally: `stop = True`.
MainStop ==
  /\ pc = "stop"
  /\ thr' = [thr EXCEPT !.stop = TRUE]
  /\ Goto("wait_exit")
  /\ UNCHANGED <<profile, config, port, sess, script, reboot, logs, files,
                 capture, mirror, up, feed, term>>

\* main, finally: rc = chan.recv_exit_status() (waits for the exit status);
\* chan.close(); return rc.  The reader thread is not joined.
MainClose ==
  /\ pc = "wait_exit" /\ chan.exit
  /\ Return(chan.rc)
  /\ UNCHANGED <<profile, config, port, sess, script, reboot, logs, files,
                 capture, mirror, up, feed, thr, term>>

ThreadNext ==
  \/ StdoutArrives \/ StderrArrives \/ ExitArrives
  \/ ReaderWhile \/ ReaderStdout \/ ReaderStderr \/ ReaderExitCheck
  \/ MainKeys \/ MainExitCheck \/ MainInterrupt \/ MainStop \/ MainClose

SpecThread == ThreadInit /\ [][ThreadNext]_vars

(***************************************************************************)
(* interactive_shell on POSIX: the local terminal is put into raw mode and *)
(* bytes are bridged between the terminal and the channel.                 *)
(***************************************************************************)
ChanReads  == {"data", "eof"}
StdinReads == {"data", "eof"}

\* One pass of `while True` after select returned rlist (a non-empty subset of
\* {"chan", "stdin"}): the channel is read first (no data: break), then stdin
\* (no data or a failed os.read: break; a failed chan.send: break).
\* Result: why the loop is left ("none": it goes on) and what was bridged.
bridge_pass(rlist, chanRead, stdinRead, sendOk) ==
  IF "chan" \in rlist /\ chanRead = "eof"
    THEN [exit |-> "remote_eof", toLocal |-> 0, toRemote |-> 0]
  ELSE LET got == IF "chan" \in rlist THEN 1 ELSE 0
       IN  IF "stdin" \notin rlist THEN [exit |-> "none", toLocal |-> got, toRemote |-> 0]
           ELSE IF stdinRead = "eof"
             THEN [exit |-> "local_eof", toLocal |-> got, toRemote |-> 0]
           ELSE IF ~sendOk
             THEN [exit |-> "send_failed", toLocal |-> got, toRemote |-> 0]
           ELSE [exit |-> "none", toLocal |-> got, toRemote |-> 1]

\* Mutant: the saved attributes are never written back.
restore_attrs_Never(saved, raw) == raw

\* finally: `if old_attrs is not None: termios.tcsetattr(fd, TCSADRAIN,
\* old_attrs)`: whether the terminal is in raw mode afterwards.
restore_attrs(saved, raw) == IF saved THEN FALSE ELSE raw

ShellInit ==
  /\ op = "login" /\ pc = "enter"
  /\ cfgPort = DefaultPort /\ hasPassword = FALSE /\ user = "root"
  /\ waitSeconds = 0 /\ nScripts = 0 /\ forceTty = FALSE /\ idx = 0
  /\ faults = FALSE
  /\ InitCommon /\ NoFiles /\ NoCapture /\ NoConfig /\ NoMirror /\ NoUp /\ NoFeed /\ NoThr
  /\ \E isatty \in BOOLEAN :
       term = [isatty |-> isatty, saved |-> FALSE, raw |-> FALSE, open |-> TRUE,
               toLocal |-> 0, toRemote |-> 0, exit |-> "none"]

\* `if sys.stdin.isatty(): old_attrs = tcgetattr(fd); tty.setraw(fd); ...`
ShellEnter ==
  /\ pc = "enter"
  /\ term' = [term EXCEPT !.saved = term.isatty, !.raw = term.isatty]
  /\ Goto("bridge")
  /\ UNCHANGED <<profile, config, port, sess, script, reboot, logs, files,
                 capture, mirror, up, feed, thr>>

\* One pass of the bridging loop.
ShellBridge ==
  /\ pc = "bridge"
  /\ \E rlist \in (SUBSET {"chan", "stdin"}) \ {{}},
        chanRead \in ChanReads, stdinRead \in StdinReads, sendOk \in BOOLEAN :
       LET b == bridge_pass(rlist, chanRead, stdinRead, sendOk)
       IN  /\ term.toLocal + b.toLocal <= MaxBridged
           /\ term.toRemote + b.toRemote <= MaxBridged
           /\ term' = [term EXCEPT !.toLocal = @ + b.toLocal,
                                   !.toRemote = @ + b.toRemote,
                                   !.exit = b.exit]
           /\ Goto(IF b.exit = "none" THEN "bridge" ELSE "finally")
  /\ UNCHANGED <<profile, config, port, sess, script, reboot, logs, files,
                 capture, mirror, up, feed, thr>>

\* KeyboardInterrupt inside the try block; `except KeyboardInterrupt: pass`.
ShellInterrupt ==
  /\ pc \in {"enter", "bridge"}
  /\ term' = [term EXCEPT !.exit = "interrupt"]
  /\ Goto("finally")
  /\ UNCHANGED <<profile, config, port, sess, script, reboot, logs, files,
                 capture, mirror, up, feed, thr>>

\* finally: the saved attributes are written back, chan.close(); the function
\* returns None.
ShellFinally ==
  /\ pc = "finally" /\ term.exit # "none"
  /\ term' = [term EXCEPT !.raw = restore_attrs(term.saved, term.raw), !.open = FALSE]
  /\ Return(0)
  /\ UNCHANGED <<profile, config, port, sess, script, reboot, logs, files,
                 capture, mirror, up, feed, thr>>

ShellNext == ShellEnter \/ ShellBridge \/ ShellInterrupt \/ ShellFinally

SpecShell == ShellInit /\ [][ShellNext]_vars

(***************************************************************************)
(* Properties                                                              *)
(***************************************************************************)
Returned == retKind = "returned"
Finished == retKind # "running"

\* determine_ssh_port has been called and its result is in usePort.
Resolved == usePort # None \/ "port_unreachable" \in logs

\* C1: determine_ssh_port returns the configured port when it is reachable;
\* otherwise 22 when the configured port is not 22 and 22 is reachable;
\* otherwise no port.
C1_PortResolution ==
  Resolved =>
    /\ cfgPort \in reachSeen => usePort = cfgPort
    /\ (cfgPort \notin reachSeen /\ cfgPort # 22 /\ 22 \in reachSeen) => usePort = 22
    /\ (cfgPort \notin reachSeen /\ (cfgPort = 22 \/ 22 \notin reachSeen)) => usePort = None

\* The configured port was closed and the fallback port 22 was taken.
C1_Witness ==
  Resolved /\ cfgPort # 22 /\ cfgPort \notin reachSeen /\ usePort = 22

\* C2: when script i is the first whose execution returns a non-zero rc,
\* run_scripts returns exactly rc and no probe, connect, upload or execution
\* is ever made for a script after i.
C2_FailFast ==
  op = "run-scripts" =>
    \A i \in 1..Len(rcs) :
      (rcs[i] # 0 /\ \A j \in 1..(i - 1) : rcs[j] = 0) =>
        /\ Returned /\ retVal = rcs[i]
        /\ \A st \in steps : st[1] <= i

\* The first of two scripts exited 3 and run_scripts returned 3.
C2_Witness ==
  /\ op = "run-scripts" /\ nScripts = 2
  /\ rcs = <<3>> /\ Returned /\ retVal = 3

\* execute_remote_script has completed (returned or raised) for the current script.
Executed == <<idx, "execute">> \in steps

\* C3: once execute_remote_script has completed after an upload, the uploaded
\* file does not exist on the remote host, whatever the script's exit code,
\* and also when cd or chmod failed before the script.
C3_ArtifactRemoved ==
  (op \in ScriptOps /\ Executed) => artifact = "none"

\* A file was uploaded, cd failed so the script never started, and the file is gone.
C3_Witness ==
  /\ op \in ScriptOps /\ Executed
  /\ run.uploaded = "full" /\ run.cdSt # 0 /\ ~run.started
  /\ artifact = "none"

\* C4: the value execute_remote_script returns, and run_single_script and
\* run_scripts pass on, is the script's own exit status, not the status of
\* the removal that follows it.
C4_ExitCodePropagated ==
  (op \in ScriptOps /\ idx >= 1 /\ Len(rcs) = idx /\ run.started) =>
    /\ rcs[idx] = run.rc
    /\ Returned => retVal = run.rc

\* The script ran and exited 3, and the operation returned 3.
C4_Witness ==
  /\ op \in ScriptOps /\ idx >= 1 /\ Len(rcs) = idx
  /\ run.started /\ run.rc = 3 /\ Returned /\ retVal = 3

\* C5: when an operation has returned or raised, every transport it opened
\* has been closed.
C5_NoTransportLeftOpen ==
  Finished => cli.open = {}

\* C6: the retry of SSHClient.connect authenticates by password only: key
\* discovery and the agent are both disabled; and a connect that failed
\* leaves the session without a client.
C6_RetryPasswordOnly ==
  /\ Len(cli.attempts) >= 1 =>
       /\ ~cli.attempts[1].password
       /\ cli.attempts[1].look_for_keys /\ cli.attempts[1].allow_agent
  /\ Len(cli.attempts) >= 2 =>
       /\ hasPassword /\ cli.attempts[2].password
       /\ ~cli.attempts[2].look_for_keys /\ ~cli.attempts[2].allow_agent
  /\ connExc # "none" => ~cli.client

\* C7: close() may be called any number of times: each call leaves the session
\* with neither client nor transport, and a second or later call does not
\* raise and changes nothing.
C7_CloseIdempotent ==
  [][closeCalls' = closeCalls + 1 =>
       /\ ~cli'.client /\ cli'.transport = None
       /\ closeCalls >= 1 => (cli' = cli /\ ~closeRaised')]_vars

\* The session was connected, its first close() raised, and close() was called again.
C7_Witness ==
  /\ op = "client" /\ closeCalls >= 2
  /\ cli.attempts # <<>> /\ cli.lib # None /\ ~cli.client

\* C8: when the port cannot be resolved or authentication fails, the operation
\* returns a non-zero status at once and performs none of its later steps.
C8_LocalErrorsAbort ==
  ("port_unreachable" \in logs \/ connExc = "auth") =>
    /\ pc = "done" /\ Returned /\ retVal # 0
    /\ "reboot_initiated" \notin logs

\* The down phase ended by its timeout.
DownTimedOut == "still_reachable" \in logs

\* C9: when the down phase reaches its timeout with the port still reachable,
\* reboot_server does not fail: it warns, enters the up phase, and the result
\* is the up phase's: 0 when a probe found the port open, 1 on its timeout.
C9_DownTimeoutNotFatal ==
  (op = "reboot" /\ DownTimedOut) =>
    /\ pc \in {"up", "done"}
    /\ pc = "done" =>
         /\ Returned
         /\ \/ retVal = 0 /\ "back_online" \in logs /\ "timeout" \notin logs
            \/ retVal = 1 /\ "timeout" \in logs /\ "back_online" \notin logs

\* The down phase timed out and the up phase then reported the host online.
C9_Witness ==
  op = "reboot" /\ DownTimedOut /\ Returned /\ retVal = 0 /\ "back_online" \in logs

\* C10: the up phase returns success at the first probe that finds the port
\* reachable, and reports a timeout if and only if the port was not reachable
\* at any moment before waitSeconds had elapsed since the up phase began.
C10_TimeoutIffNeverUp ==
  (op = "reboot" /\ connExc = "none" /\ Returned
     /\ ("back_online" \in logs \/ "timeout" \in logs)) =>
    /\ "back_online" \in logs => retVal = 0
    /\ retVal = 1 <=> ~(firstUp >= 0 /\ firstUp < waitSeconds)

\* The issue step of reboot_server has completed (the reboot command returned
\* a code, or the attempt ended with an SSH error).
Issued == "reboot_issued" \in logs \/ "ssh_error" \in logs

\* C11: with waitSeconds zero or unset, reboot_server never enters the down
\* phase or the up phase, so it makes no reachability probe after the issue
\* step, and it returns 0 as its next step after the issue step.
C11_NoWaitNoProbe ==
  (op = "reboot" /\ waitSeconds = 0) =>
    /\ pc \notin {"down", "up"}
    /\ waited = 0 /\ firstUp = -1
    /\ logs \cap {"still_reachable", "back_online", "timeout"} = {}
    /\ (Issued /\ pc # "waitcheck") =>
         Returned /\ retVal = 0 /\ "reboot_initiated" \in logs

\* No wait was requested, the command returned a code, and reboot_server returned 0.
C11_Witness ==
  /\ op = "reboot" /\ waitSeconds = 0 /\ "reboot_issued" \in logs
  /\ Returned /\ retVal = 0 /\ "reboot_initiated" \in logs

\* The connection was established and then dropped while the reboot command ran.
DroppedAfterDispatch == op = "reboot" /\ connExc = "none" /\ "ssh_error" \in logs

\* C12: when the connection drops after the reboot command was dispatched, or
\* the command returns any exit code, the issue step counts as successful:
\* the session is closed, and the operation returns 0 when no wait was
\* requested or goes through the wait phases, whose result it returns.
C12_DropIsIssueSuccess ==
  (op = "reboot" /\ connExc = "none" /\ Issued) =>
    /\ ~cli.client /\ cli.transport = None /\ cli.lib = None
    /\ pc \in {"waitcheck", "down", "up", "done"}
    /\ pc = "done" =>
         /\ Returned
         /\ waitSeconds = 0 => retVal = 0 /\ "reboot_initiated" \in logs
         /\ waitSeconds > 0 => \/ retVal = 0 /\ "back_online" \in logs
                               \/ retVal = 1 /\ "timeout" \in logs

\* The connection dropped after dispatch and the host was then seen back online.
C12_Witness ==
  /\ DroppedAfterDispatch /\ waitSeconds > 0
  /\ ~cli.client /\ Returned /\ retVal = 0 /\ "back_online" \in logs

\* The items the transfer loop has dealt with so far.
Processed == 1..(xfer.i - 1)
MissingItems == {j \in 1..Len(items) : kinds[items[j]] = "missing"}

\* C13: download_items reports every missing remote path as an error, copies
\* every path that exists whether it comes before or after a missing one, goes
\* through the whole list, and returns non-zero exactly when a path was missing.
C13_DownloadPartialFailure ==
  (op = "download" /\ xfer.i >= 1) =>
    /\ xfer.i <= Len(items) + 1
    /\ \A j \in Processed \cap (1..Len(items)) :
         IF j \in MissingItems
           THEN j \in xfer.reported /\ j \notin xfer.copied
           ELSE j \in xfer.copied /\ j \notin xfer.reported
    /\ xfer.reported # {} => "remote_not_found" \in logs
    /\ Returned =>
         /\ xfer.i = Len(items) + 1
         /\ retVal # 0 <=> MissingItems # {}

\* An existing path, then a missing one, then an existing one: both existing
\* paths were copied and the result is 1.
C13_Witness ==
  /\ op = "download" /\ Returned /\ retVal = 1 /\ Len(items) = 3
  /\ MissingItems = {2} /\ xfer.reported = {2} /\ xfer.copied = {1, 3}

\* C14: upload_items reports every missing local path as an error, uploads
\* every path that exists whether it comes before or after a missing one, goes
\* through the whole batch, and returns non-zero exactly when a path was missing.
C14_UploadPartialFailure ==
  (op = "upload" /\ xfer.i >= 1) =>
    /\ xfer.i <= Len(items) + 1
    /\ \A j \in Processed \cap (1..Len(items)) :
         IF j \in MissingItems
           THEN j \in xfer.reported /\ j \notin xfer.copied
           ELSE /\ j \in xfer.copied /\ j \notin xfer.reported
                /\ stat(dirs, xfer.dest)
                /\ kinds[items[j]] = "dir" => stat(dirs, Append(xfer.dest, items[j]))
    /\ xfer.reported # {} => "local_not_found" \in logs
    /\ Returned =>
         /\ xfer.i = Len(items) + 1
         /\ retVal # 0 <=> MissingItems # {}

\* A missing local path first, then a file: the file was uploaded, the result is 1.
C14_Witness ==
  /\ op = "upload" /\ Returned /\ retVal = 1 /\ Len(items) >= 2
  /\ 1 \in MissingItems /\ kinds[items[2]] = "file" /\ 2 \in xfer.copied

UploadReturned == op \in ScriptOps /\ pc = "execute"

\* C16: whenever upload_script returns a remote path, by SFTP or by the
\* streaming fallback, the remote file holds the whole local script.
C16_UploadByteIdentical ==
  UploadReturned => artifact = "full"

\* The upload of the current script did not put the whole file on the host.
UploadFailed ==
  /\ op \in ScriptOps /\ <<idx, "upload">> \in steps
  /\ \/ pc = "execute" /\ artifact # "full"
     \/ Executed /\ run.uploaded # "full"
     \/ pc = "done" /\ ~Executed /\ retKind = "raised"

\* C17: when SFTP is unavailable and the fallback upload fails too, the caller
\* is told: the chmod-and-execute step is never reached for that script and
\* the operation ends with an error.
C17_FallbackFailureReported ==
  UploadFailed =>
    /\ pc = "done" /\ ~Executed
    /\ ~(Returned /\ retVal = 0)

\* The SFTP listing of a directory was printed.
ListedBySftp == op = "ls-remote" /\ Returned /\ listed.via = "sftp"

\* C18: when SFTP is available and the target is a directory whose listing
\* succeeds, sftp_list_directory prints exactly one line per directory entry,
\* in ascending order of the lower-cased names, and a line is tagged "d"
\* exactly when its entry is a directory.
C18_ListingSortedAndTagged ==
  ListedBySftp =>
    /\ retVal = 0
    /\ Len(listed.lines) = Len(entries)
    /\ \A i \in 1..Len(entries) :
         Cardinality({j \in 1..Len(listed.lines) :
                        /\ listed.lines[j].name = entries[i].filename
                        /\ listed.lines[j].kind = "d" <=> entries[i].mode = "dir"}) = 1
    /\ \A i, j \in 1..Len(listed.lines) :
         i < j => lower(listed.lines[i].name) <= lower(listed.lines[j].name)

\* "B" (a directory) was returned before "a" (a file); the listing has "a" first.
C18_Witness ==
  /\ ListedBySftp /\ Len(entries) = 2
  /\ entries[1] = [filename |-> 66, mode |-> "dir"]
  /\ entries[2] = [filename |-> 97, mode |-> "file"]
  /\ listed.lines = <<[kind |-> "-", name |-> 97], [kind |-> "d", name |-> 66]>>

\* The capture-only read loop is the operation being run.
Capturing == pc \in {"recv", "recv_stderr", "exit_status", "finally"} \/ chan.exit

\* C19: in capture-only execution, when execute_remote_script returns, nothing
\* the remote command wrote is left unread: both streams were read until
\* exhausted after the exit status arrived.
C19_DrainedBeforeReturn ==
  (Capturing /\ Returned) => (chan.out = 0 /\ chan.err = 0)

\* C20: in capture-only execution execute_remote_script always ends by
\* returning the remote exit code, also for a command that writes output; it
\* never ends with a local exception.
C20_CaptureReturnsExitCode ==
  (Capturing /\ Finished) => (Returned /\ retVal = chan.rc /\ chan.exc = "none")

\* C21: in TTY execution on POSIX every line written to local output, in the
\* streaming loop and in the drain, is passed to log_remote exactly once: the
\* logged lines are the printed lines, in the same order.
C21_EveryPrintedLineLogged ==
  (forceTty /\ pc \in {"select", "finally", "done"}) => pty.logged = pty.printed

\* C22: a local interrupt during a TTY script run leaves the loop, closes the
\* channel without waiting for the remote command to exit, and ends the
\* operation as a failure: a non-zero result or the interrupt itself.
C22_InterruptIsFailure ==
  (forceTty /\ pty.intr) =>
    /\ pc \in {"finally", "done"}
    /\ Finished => (retKind = "raised" \/ retVal # 0)

\* C23: a failure of the session close never replaces the primary result: when
\* the script run produced exit code rc and cli.close() then fails,
\* run_single_script and run_scripts still return (rc when the run ends there).
C23_CleanupNeverMasksResult ==
  (op \in ScriptOps /\ idx >= 1 /\ Len(rcs) = idx /\ closeRaised) =>
    /\ retKind # "raised"
    /\ Finished => retVal = rcs[idx]

\* C24: script execution returns after a bounded time even if the remote side
\* never responds: the capture-only run of execute_remote_script eventually
\* ends.
C24_EventuallyReturns ==
  <>(pc = "done")

\* C25: run_scripts works on one script at a time, in list order: every probe,
\* connect, upload and execution is made for the current script; the loop moves
\* from script k to script k+1 only in the step in which script k returned 0
\* and the session used for script k was closed, so the connect of script k+1
\* finds no session open.
C25_ScriptsStrictlySequential ==
  [][op = "run-scripts" =>
       /\ \A st \in steps' \ steps : st[1] = idx /\ idx >= 1
       /\ idx' # idx =>
            /\ idx' = idx + 1
            /\ idx >= 1 =>
                 /\ Len(rcs') = idx /\ rcs'[idx] = 0
                 /\ \A j \in 1..idx : <<j, "execute">> \in steps'
                 /\ cli.client /\ cli.transport \in cli.open
                 /\ ~cli'.client /\ cli.transport \notin cli'.open
       /\ (cli'.client /\ ~cli.client) => (pc = "connect" /\ cli'.transport \notin cli.open)]_vars

\* Both scripts of a two-script list ran, each exited 0, and the session is closed.
C25_Witness ==
  /\ op = "run-scripts" /\ nScripts = 2 /\ rcs = <<0, 0>>
  /\ {<<1, "execute">>, <<2, "connect">>, <<2, "execute">>} \subseteq steps
  /\ Returned /\ retVal = 0 /\ ~cli.client

\* C26: the port of every profile parse_conf produces is in 1..65535, whatever
\* the port key holds (missing, non-numeric, zero, negative, above 65535).
C26_PortInRange ==
  conf.parsed => conf.port \in 1..65535

\* C27: a host key is accepted and recorded only for a host without a
\* known-host entry; when the server presents a key that differs from the
\* host's known-host entry, connect rejects it, nothing is recorded and no
\* session exists afterwards.
C27_AcceptNewRejectChanged ==
  (trust.presented # 0 /\ trust.known # 0 /\ trust.known # trust.presented) =>
    /\ trust.verdict = "rejected" /\ trust.stored = 0
    /\ ~cli.client /\ cli.open = {}

\* C28: the list passed to a script is the CLI list when one is given and
\* non-empty; otherwise the per-script list whenever the profile maps the
\* script name, an empty mapped list included; the default list only when the
\* name has no mapping.
C28_ArgsSelection ==
  args.selected =>
    args.eff = (IF args.cli_given /\ args.cli # <<>> THEN args.cli
                ELSE IF args.mapped THEN args.map
                ELSE args.default)

\* C29: when a script is executed, the environment attached to its channel has
\* SSH_PORT = the configured port, ACTUAL_PORT = the port that port resolution
\* returned for this run, and ADMIN_USER = the profile's user; the two ports
\* differ exactly when resolution fell back to port 22.
C29_ScriptEnvironment ==
  [][(op \in ScriptOps /\ pc = "execute") =>
       /\ int(run'.env.SSH_PORT) = [ok |-> TRUE, val |-> cfgPort]
       /\ int(run'.env.ACTUAL_PORT) = [ok |-> TRUE, val |-> usePort]
       /\ run'.env.ADMIN_USER = user
       /\ (run'.env.SSH_PORT # run'.env.ACTUAL_PORT) <=>
            (cfgPort # DefaultPort /\ cfgPort \notin reachSeen /\ DefaultPort \in reachSeen)]_vars

C29_Witness ==
  /\ op = "run-script" /\ Executed /\ Returned
  /\ cfgPort = 2222 /\ usePort = 22 /\ user = "admin"
  /\ run.env = [SSH_PORT |-> <<"2", "2", "2", "2">>, ACTUAL_PORT |-> <<"2", "2">>,
                ADMIN_USER |-> "admin"]

\* C30: for every remote path and absolute home, _sftp_abs returns an absolute
\* path without empty, '.' or '..' segments; a leading '~' stands for home, a
\* relative path is resolved against home, a '.' segment is dropped, a '..'
\* segment removes the segment before it (none at the root), and _sftp_abs of
\* the result is the result.
C30_SftpAbsNormalises ==
  LET h == absp.home
      p == absp.path
      Segments(r) == IF r = <<"/">> THEN <<>> ELSE split(Tail(r))
      Clean(r) ==
        /\ startswith(r, "/")
        /\ \A i \in 1..Len(Segments(r)) :
             Segments(r)[i] \notin {<<>>, <<".">>, <<".", ".">>}
      Parent(r) == <<"/">> \o join(SubSeq(Segments(r), 1, Len(Segments(r)) - 1))
  IN  /\ absp.calls >= 1 =>
           /\ Clean(absp.out)
           /\ startswith(p, "~") => absp.out = sftp_abs(h, h \o Tail(p))
           /\ (p # <<>> /\ ~startswith(p, "~") /\ ~startswith(p, "/")) =>
                absp.out = sftp_abs(h, h \o <<"/">> \o p)
           /\ p = <<>> => absp.out = sftp_abs(h, <<".">>)
           /\ p # <<>> =>
                /\ sftp_abs(h, p \o <<"/", ".">>) = absp.out
                /\ sftp_abs(h, p \o <<"/", ".", ".">>) = Parent(absp.out)
                /\ sftp_abs(h, p \o <<"/", "a">>) =
                     (IF absp.out = <<"/">> THEN <<"/", "a">>
                                            ELSE absp.out \o <<"/", "a">>)
      /\ absp.calls = 2 => absp.again = absp.out

C30_Witness ==
  /\ absp.calls = 2
  /\ absp.home = <<"/", "h">> /\ absp.path = <<".", ".", "/", "a">>
  /\ absp.out = <<"/", "a">> /\ absp.again = <<"/", "a">>

C32_FallbackOnlyAfterFailure ==
  LET t == up.trace
      Fallbacks == {i \in 1..Len(t) : t[i] = "open_session"}
      a == sftp_attempt(up.plan)
  IN  /\ t # <<>> => t[1] = "sftp_open"
      /\ Cardinality(Fallbacks) <= 1
      /\ \A i \in Fallbacks :
           /\ a.raised
           /\ SubSeq(t, 1, i - 1) = a.calls
      /\ (pc = "done" /\ ~a.raised) => (Fallbacks = {} /\ up.artifact = "full")
      /\ (pc = "done" /\ a.raised) => Fallbacks # {}

C32_Witness ==
  /\ pc = "done" /\ retKind = "returned" /\ up.artifact = "full"
  /\ up.trace = <<"sftp_open", "sftp_stat", "sftp_mkdir", "open_session",
                  "exec_command", "sendall", "recv_exit_status">>

\* C33: the wrapper runs the script with bash only when the probe found bash
\* on the remote host; in every other case (the probe fails, times out or
\* exits non-zero included) it runs the script with sh.
C33_BashOnlyWhenFound ==
  (op \in ScriptOps /\ run.shell # "none") =>
    (run.shell = (IF run.found THEN "bash" ELSE "sh"))

\* C34: connect makes at most two attempts; the second is made only after the
\* first raised an authentication failure with a non-empty password; any other
\* error of the first attempt, and an authentication failure without a
\* password, is raised without a retry; whenever connect fails the session has
\* neither client nor transport.
C34_AtMostOneRetry ==
  LET a == cli.attempts
  IN  /\ Len(a) <= 2
      /\ Len(a) = 2 => (a[1].outcome = "auth" /\ hasPassword)
      /\ (Len(a) >= 1 /\ a[1].outcome = "auth" /\ hasPassword) => Len(a) = 2
      /\ (Len(a) = 1 /\ a[1].outcome # "ok") => connExc = a[1].outcome
      /\ (Len(a) = 2 /\ a[2].outcome # "ok") => connExc = a[2].outcome
      /\ connExc # "none" => (~cli.client /\ cli.transport = None)

C34_Witness ==
  /\ op = "client" /\ closeCalls = 0 /\ hasPassword
  /\ Len(cli.attempts) = 2 /\ cli.attempts[1].outcome = "auth"
  /\ cli.attempts[2].outcome = "other"
  /\ connExc = "other" /\ ~cli.client /\ cli.transport = None

\* C35: in reboot_server the session that issued the reboot is closed before
\* the first probe of the down phase, no session is opened during the down
\* and up phases, the up phase starts only from the down phase, and both
\* phases probe the port that port resolution returned.
C35_WaitPhasesUseProbesOnly ==
  [][op = "reboot" =>
       /\ pc \in {"down", "up"} =>
            /\ ~cli.client /\ cli.transport = None
            /\ cli' = cli
            /\ usePort = determine_ssh_port(cfgPort, reachSeen) /\ usePort # None
            /\ probe'.port = usePort
       /\ (pc' = "down" /\ pc # "down") => (pc = "waitcheck" /\ probe.n = 0)
       /\ (pc' = "up" /\ pc # "up") => pc = "down"
       /\ probe'.phase = "up" => pc = "up"
       /\ probe'.phase = "down" => pc = "down"]_vars

C35_Witness ==
  /\ op = "reboot" /\ cfgPort = 2222 /\ usePort = 22
  /\ cli.attempts # <<>> /\ ~cli.client /\ connExc = "none"
  /\ probe = [port |-> 22, phase |-> "up", n |-> 2]
  /\ "still_reachable" \notin logs /\ "back_online" \in logs /\ Returned /\ retVal = 0

\* C36: with waitSeconds = w > 0, reboot_server terminates; the down phase
\* makes at most DownTimeout / DownInterval = 30 probes and the up phase at
\* most ceil(w / UpInterval) probes; a timeout of the up phase is reported
\* after the sleep that follows its last probe, without another probe.
C36_WaitTerminates ==
  /\ [](  (op = "reboot" /\ waitSeconds > 0) =>
            /\ probe.phase = "down" => probe.n <= DownTimeout \div DownInterval
            /\ probe.phase = "up" =>
                 probe.n <= (waitSeconds + UpInterval - 1) \div UpInterval
            /\ "still_reachable" \in logs => probe.phase = "up" \/ pc = "up"
            /\ "timeout" \in logs =>
                 /\ probe.phase = "up"
                 /\ probe.n = (waitSeconds + UpInterval - 1) \div UpInterval
                 /\ waited = probe.n * UpInterval)
  /\ (op = "reboot" /\ waitSeconds > 0) => <>(pc = "done")

C36_Witness ==
  /\ op = "reboot" /\ waitSeconds = 4 /\ Returned /\ retVal = 1
  /\ "still_reachable" \in logs /\ "timeout" \in logs
  /\ probe = [port |-> usePort, phase |-> "up", n |-> 2] /\ waited = 6

\* C37: the lines emitted for a stream depend only on its bytes, not on the
\* chunks they arrive in: once the stream has been read, the emitted lines are
\* the lines of the whole stream, in order, and a line split across two chunks
\* is one line.
C37_LinesIndependentOfChunks ==
  (feed.chunks >= 1 /\ feed.rest = <<>>) => feed.emitted = splitlines(feed.stream)

\* C38: in the thread-based TTY path, under every interleaving of the reader
\* thread and the main thread, everything the remote command wrote before it
\* exited has been emitted by the reader when execute_remote_script closes
\* the channel and returns the exit code (shown for runs without a local
\* interrupt).
C38_ReaderDrainsBeforeClose ==
  (thr.started /\ Returned /\ ~pty.intr) =>
    /\ chan.out = 0 /\ chan.err = 0
    /\ retVal = chan.rc

\* C39: on POSIX interactive_shell leaves its bridging loop on remote end of
\* stream, local end of input, a failed send and a local interrupt; on each of
\* these exits the terminal attributes saved at entry are restored (when they
\* were changed) and the channel is closed before the function returns.
C39_TeardownOnEveryExit ==
  /\ [](op = "login" /\ term.exit # "none" => pc \in {"finally", "done"})
  /\ [](op = "login" /\ pc = "done" =>
          /\ term.exit \in {"remote_eof", "local_eof", "send_failed", "interrupt"}
          /\ ~term.raw /\ ~term.open /\ Returned)
  /\ [][(pc = "bridge" /\ term'.exit # "none") => pc' = "finally"]_vars

C39_Witness ==
  /\ op = "login" /\ pc = "done" /\ Returned
  /\ term.isatty /\ term.saved /\ ~term.raw /\ ~term.open
  /\ term.exit = "send_failed" /\ term.toLocal = 2 /\ term.toRemote = 1

\* C40: sftp_list_directory hands the listing to the remote shell exactly when
\* the SFTP subsystem cannot be opened or the read of a directory fails, and
\* then writes the shell's output as received; the shell listing returns 1
\* exactly when the remote command exits non-zero and writes nothing then.  A
\* file target is shown as one entry with result 0, and a missing target is an
\* error with result 1 that never reaches the shell.
C40_ListingFallback ==
  (op = "ls-remote" /\ Returned /\ listed.call.target \in PathKinds) =>
    LET c == listed.call
        fallback == ~c.sftpOk \/ (c.target = "dir" /\ ~c.listOk)
    IN  /\ (listed.via = "shell") <=> fallback
        /\ fallback =>
             /\ retVal = (IF c.shellCode # 0 THEN 1 ELSE 0)
             /\ listed.written = (IF c.shellCode # 0 THEN "" ELSE c.out)
             /\ listed.lines = <<>>
        /\ (c.sftpOk /\ c.target = "file") =>
             /\ retVal = 0 /\ listed.via = "file"
             /\ Len(listed.lines) = 1 /\ listed.lines[1].name = TargetName
        /\ (c.sftpOk /\ c.target = "missing") =>
             /\ retVal = 1 /\ listed.via = "none"
             /\ listed.lines = <<>> /\ listed.written = ""

\* Reached: the directory exists but listdir_attr fails, and the shell's
\* listing is written through with result 0.
C40_Witness ==
  /\ op = "ls-remote" /\ Returned /\ retVal = 0
  /\ listed.call.sftpOk /\ listed.call.target = "dir" /\ ~listed.call.listOk
  /\ listed.call.shellCode = 0 /\ listed.call.out = "b\nA\n"
  /\ listed.via = "shell" /\ listed.written = "b\nA\n"

=============================================================================
